---- MODULE Spec2Model ----
(***************************************************************************)
(* The eligibility-filtering and send pipeline of stasher-review-sms: the  *)
(* daily review-request job (runJob), the hourly locker-reminder job       *)
(* (runHiveboxReminderJob), the opt-out ledger and the inbound webhook.    *)
(*                                                                         *)
(* Node runs every handler on one thread, so a handler is atomic between   *)
(* two of its awaits that wait for I/O or a timer.  Each action below is   *)
(* one such segment: it starts where a trigger or an I/O completion        *)
(* resumes the handler and ends at the next I/O await (the data-source     *)
(* query, the TextMagic request, the rate-limit timer) or at the return.   *)
(***************************************************************************)
EXTENDS Integers, Sequences, FiniteSets, TLC

\* JavaScript null / undefined.
NULL == "<null>"

\* Most rows one data-source query returns.
MaxFetch == 2

\* Most job runs (of either job, by any trigger) started in one behaviour.
MaxRuns == 2

RunIds == 1..MaxRuns

(***************************************************************************)
(* Strings.                                                                *)
(***************************************************************************)

\* String.prototype.startsWith
StartsWith(s, p) == Len(s) >= Len(p) /\ SubSeq(s, 1, Len(p)) = p

Rest(s) == SubSeq(s, 2, Len(s))

Most(s) == SubSeq(s, 1, Len(s) - 1)

RECURSIVE TrimStart(_)
TrimStart(s) == IF Len(s) > 0 /\ SubSeq(s, 1, 1) = " " THEN TrimStart(Rest(s)) ELSE s

RECURSIVE TrimEnd(_)
TrimEnd(s) == IF Len(s) > 0 /\ SubSeq(s, Len(s), Len(s)) = " " THEN TrimEnd(Most(s)) ELSE s

\* String.prototype.trim
Trim(s) == TrimEnd(TrimStart(s))

\* s.replace(/\s+/g, '')
RECURSIVE RemoveSpaces(_)
RemoveSpaces(s) ==
    IF Len(s) = 0 THEN s
    ELSE IF SubSeq(s, 1, 1) = " " THEN RemoveSpaces(Rest(s))
         ELSE SubSeq(s, 1, 1) \o RemoveSpaces(Rest(s))

\* s.replace(/^\+/, '')
StripLeadingPlus(s) == IF StartsWith(s, "+") THEN Rest(s) ELSE s

LowerLetters == "abcdefghijklmnopqrstuvwxyz"

UpperLetters == "ABCDEFGHIJKLMNOPQRSTUVWXYZ"

MapChar(c, from, to) ==
    IF \E i \in 1..Len(from) : SubSeq(from, i, i) = c
    THEN LET i == CHOOSE j \in 1..Len(from) : SubSeq(from, j, j) = c
         IN  SubSeq(to, i, i)
    ELSE c

\* String.prototype.toUpperCase
RECURSIVE ToUpperCase(_)
ToUpperCase(s) ==
    IF Len(s) = 0 THEN s
    ELSE MapChar(SubSeq(s, 1, 1), LowerLetters, UpperLetters) \o ToUpperCase(Rest(s))

\* String.prototype.toLowerCase
RECURSIVE ToLowerCase(_)
ToLowerCase(s) ==
    IF Len(s) = 0 THEN s
    ELSE MapChar(SubSeq(s, 1, 1), UpperLetters, LowerLetters) \o ToLowerCase(Rest(s))

\* String.prototype.includes
Includes(s, k) ==
    \E i \in 1..(Len(s) - Len(k) + 1) : SubSeq(s, i, i + Len(k) - 1) = k

(***************************************************************************)
(* Phone normalizer (utils.ts).  libphonenumber-js is outside the          *)
(* repository; it is represented by its answers on the numbers that occur  *)
(* in the data source and in the webhooks of this model.                   *)
(***************************************************************************)

\* Numbers in international form that the library validates, whatever the
\* default country.
ValidInternational == {"+447911123456", "+447911000000", "+14155550100"}

\* Numbers in GB national form that the library validates under default
\* country GB, and their E.164 form.
NationalGB(n) ==
    CASE n = "07911123456" -> "+447911123456"
      [] n = "07911000000" -> "+447911000000"
      [] OTHER -> NULL

isValidPhoneNumber(n, country) ==
    \/ n \in ValidInternational
    \/ country = "GB" /\ NationalGB(n) # NULL

\* parsePhoneNumber(n, country).number, for a number the library validates
parsePhoneNumber(n, country) ==
    IF n \in ValidInternational THEN n ELSE NationalGB(n)

\* What stands for an exception that left a call.
THROWN == "<thrown>"

\* Numbers on which a call into the library raises (ParseError); which
\* numbers do is the library's business, here it is this one.
RaisesParseError == {"+44(0)7911-000000"}

\* The try block of normalizePhone: the E.164 string, NULL, or THROWN when a
\* call into the library raised.
normalizePhoneTry(cleaned) ==
    IF cleaned \in RaisesParseError THEN THROWN
    ELSE IF isValidPhoneNumber(cleaned, "GB")
    THEN parsePhoneNumber(cleaned, "GB")
    ELSE LET withCountry == "+44" \o StripLeadingPlus(cleaned)
         IN  IF isValidPhoneNumber(withCountry, "")
             THEN parsePhoneNumber(withCountry, "")
             ELSE NULL

\* normalizePhone without its catch block: what the library raises leaves
\* the normalizer.
normalizePhoneUncaught(phone) ==
    IF phone = NULL \/ phone = "" THEN NULL
    ELSE LET cleaned == RemoveSpaces(Trim(phone))
         IN  IF cleaned = "" THEN NULL ELSE normalizePhoneTry(cleaned)

\* normalizePhone(phone, 'GB'): the E.164 string, or NULL
normalizePhone(phone) ==
    IF phone = NULL \/ phone = "" THEN NULL
    ELSE LET cleaned == RemoveSpaces(Trim(phone))
         IN  IF cleaned = "" THEN NULL
             ELSE IF normalizePhoneTry(cleaned) = THROWN THEN NULL
                  ELSE normalizePhoneTry(cleaned)

\* isUKNumber taking every normalized number for a UK number.
isUKNumberAnyCountry(e164, originalPhone) == TRUE

\* isUKNumber(e164, originalPhone) of the hourly job; the daily job inlines
\* the same test
isUKNumber(e164, originalPhone) ==
    IF StartsWith(e164, "+44") THEN TRUE
    ELSE IF originalPhone = NULL \/ originalPhone = "" THEN FALSE
         ELSE StartsWith(Trim(originalPhone), "07")

(***************************************************************************)
(* Opt-out ledger (sqlite.ts): table sms_opt_out, primary key phone_e164.  *)
(* A ledger is the set of the table's rows.                                *)
(***************************************************************************)

\* addOptOut as a plain INSERT, without the ON CONFLICT clause taking effect.
addOptOutInsertOnly(ledger, phoneE164, source, note) ==
    ledger \cup {[phone_e164 |-> phoneE164, source |-> source,
                  note |-> IF note = "" THEN NULL ELSE note]}

\* INSERT ... ON CONFLICT(phone_e164) DO UPDATE SET source, note, created_at
addOptOut(ledger, phoneE164, source, note) ==
    {row \in ledger : row.phone_e164 # phoneE164}
        \cup {[phone_e164 |-> phoneE164, source |-> source,
                note |-> IF note = "" THEN NULL ELSE note]}

\* removeOptOut with the WHERE clause left out: every row is deleted.
removeOptOutEverything(ledger, phoneE164) == {}

\* DELETE FROM sms_opt_out WHERE phone_e164 = ?
removeOptOut(ledger, phoneE164) ==
    {row \in ledger : row.phone_e164 # phoneE164}

\* result.changes > 0 of removeOptOut
removeOptOutChanged(ledger, phoneE164) ==
    Cardinality(ledger \ removeOptOut(ledger, phoneE164)) > 0

\* SELECT 1 FROM sms_opt_out WHERE phone_e164 = ? LIMIT 1
isOptedOut(ledger, phoneE164) == \E row \in ledger : row.phone_e164 = phoneE164

(***************************************************************************)
(* Review links (review-links.ts): a map from lowercased city to the list  *)
(* of its URLs.                                                            *)
(***************************************************************************)

\* Most URLs one city has in a pool of this model (Math.random picks one).
MaxLinks == 2

\* hasReviewLinks looking the city up as it is written, without toLowerCase and trim.
hasReviewLinksExact(map, city) == city \in DOMAIN map /\ Len(map[city]) > 0

\* hasReviewLinks(city)
hasReviewLinks(map, city) ==
    LET normalizedCity == Trim(ToLowerCase(city))
    IN  normalizedCity \in DOMAIN map /\ Len(map[normalizedCity]) > 0

\* getRandomReviewUrl(city, fallbackToLondon); pick stands for Math.random()
getRandomReviewUrl(map, city, fallbackToLondon, pick) ==
    LET normalizedCity == Trim(ToLowerCase(city))
        own   == IF normalizedCity \in DOMAIN map THEN map[normalizedCity] ELSE <<>>
        links == IF Len(own) = 0 /\ fallbackToLondon /\ "london" \in DOMAIN map
                 THEN map["london"] ELSE own
    IN  IF Len(links) = 0 THEN NULL
        ELSE links[((pick - 1) % Len(links)) + 1]

\* The pools the CSV file may hold when the process starts.
LinkPools ==
    { [c \in {} |-> <<>>],
      [c \in {"london"} |-> <<"https://g.page/r/london-1">>] }

RECURSIVE SeqsUpTo(_, _)
SeqsUpTo(S, n) ==
    IF n = 0 THEN {<<>>}
    ELSE LET shorter == SeqsUpTo(S, n - 1)
         IN  shorter \cup {Append(q, x) : q \in shorter, x \in S}

\* new URL(url) succeeds
IsUrl(url) == StartsWith(url, "https://")

\* LoadRecord creating the city's list before it validates the URL.
LoadRecordKeyFirst(map, record) ==
    LET city == Trim(record.city)
        url  == Trim(record.google_review_url)
        key  == ToLowerCase(city)
    IN  IF city = "" \/ url = "" THEN map
        ELSE [c \in DOMAIN map \cup {key} |->
                 IF c \in DOMAIN map
                 THEN (IF c = key /\ IsUrl(url) THEN Append(map[c], url) ELSE map[c])
                 ELSE IF IsUrl(url) THEN <<url>> ELSE <<>>]

\* One iteration of the loop of loadReviewLinks: the map after a record.
LoadRecord(map, record) ==
    LET city == Trim(record.city)
        url  == Trim(record.google_review_url)
        key  == ToLowerCase(city)
    IN  IF city = "" \/ url = "" \/ ~IsUrl(url) THEN map
        ELSE [c \in DOMAIN map \cup {key} |->
                 IF c \in DOMAIN map THEN (IF c = key THEN Append(map[c], url) ELSE map[c])
                 ELSE <<url>>]

\* The loop of loadReviewLinks over the parsed records from record k on.
RECURSIVE LoadRecords(_, _, _)
LoadRecords(map, records, k) ==
    IF k > Len(records) THEN map
    ELSE LoadRecords(LoadRecord(map, records[k]), records, k + 1)

\* loadReviewLinks(csvPath) on a file that is missing or that csv-parse
\* accepts: the map it returns.  On any other file parse throws.
loadReviewLinks(file) ==
    IF file.state = "missing" THEN [c \in {} |-> <<>>]
    ELSE LoadRecords([c \in {} |-> <<>>], file.records, 1)

\* The records of the CSV files of this model, and the files.
MaxRecords == 3

CsvRecords ==
    { [city |-> "London",   google_review_url |-> "https://g.page/r/london-1"],
      [city |-> " LONDON ", google_review_url |-> "https://g.page/r/london-2"],
      [city |-> "Glasgow",  google_review_url |-> "https://g.page/r/glasgow-1"],
      [city |-> "",         google_review_url |-> "https://g.page/r/london-1"],
      [city |-> "Leeds",    google_review_url |-> "g.page/r/leeds-1"] }

CsvFiles ==
    {[state |-> "ok", records |-> records] : records \in SeqsUpTo(CsvRecords, MaxRecords)}
        \cup {[state |-> "missing", records |-> <<>>], [state |-> "malformed", records |-> <<>>]}

\* getRandomReviewUrl has not been called.
NoLookup == [pc |-> "idle", city |-> "", fallbackToLondon |-> "omitted", result |-> NULL,
             hasLinks |-> FALSE, pool |-> [c \in {} |-> <<>>]]

(***************************************************************************)
(* State.                                                                  *)
(***************************************************************************)
VARIABLES
    dryRun,          \* config.dryRun (DRY_RUN)
    reviewLinksMap,  \* the loaded review-link pool
    pickups,         \* the bookings the data source holds, joined as the queries join them
    optOuts,         \* table sms_opt_out
    smsLog,          \* table sms_send_log, in insertion order
    jobRunSummary,   \* table job_run_summary; the row id is the index
    sends,           \* every invocation of RateLimitedSMS.send so far
    runs,            \* the job runs: position and locals of each
    logFaults,       \* whether the coming inserts into sms_send_log throw, in order
    preview,         \* the preview request: position, held client and response
    render,          \* the call of renderTemplate: arguments and result
    csvFile,         \* the review-links CSV file on disk
    lookup,          \* the last call of getRandomReviewUrl: arguments and result
    clock,           \* the data source's now(), in minutes since today 00:00
    smsCall          \* the call of RateLimitedSMS.send under study: position and outcome

vars == <<dryRun, reviewLinksMap, pickups, optOuts, smsLog, jobRunSummary, sends, runs,
          logFaults, preview, render, csvFile, lookup, clock, smsCall>>

(***************************************************************************)
(* Data source: the bookings joined with their customer, stashpoint and    *)
(* city, and the queries of the two jobs.  The clock of the model stands   *)
(* in the first hour of a day ("today"), so that one pickup time can lie   *)
(* in yesterday and in the previous full hour.                             *)
(***************************************************************************)

PickupTimes == {"2 days ago 23:59", "yesterday 09:30", "yesterday 23:10", "today 00:01"}

\* A timestamp in minutes since today 00:00.
MinuteOf(pickup) ==
    CASE pickup = "2 days ago 23:59" -> 0 - 1441
      [] pickup = "yesterday 09:30"  -> 0 - 870
      [] pickup = "yesterday 23:10"  -> 0 - 50
      [] pickup = "today 00:00"      -> 0
      [] pickup = "today 00:01"      -> 1
      [] pickup = "today 00:59"      -> 59
      [] pickup = "today 01:00"      -> 60
      [] pickup = "today 01:30"      -> 90

MinutesPerHour == 60
MinutesPerDay == 1440

\* date_trunc('hour', t) and t::date; \div rounds down, as both do.
HourOf(minute) == minute \div MinutesPerHour
DayOf(minute) == minute \div MinutesPerDay

\* date_trunc('hour', now()) - interval '1 hour' <= t < date_trunc('hour', now())
InPreviousHour(now, minute) ==
    /\ minute >= HourOf(now) * MinutesPerHour - MinutesPerHour
    /\ minute < HourOf(now) * MinutesPerHour

\* b.pickup::date = (CURRENT_DATE - INTERVAL '1 day')
PickedUpYesterday(pickup) == DayOf(MinuteOf(pickup)) = DayOf(clock) - 1

\* date_trunc('hour', now()) - interval '1 hour' <= b.pickup < date_trunc('hour', now())
PickedUpPreviousHour(pickup) == InPreviousHour(clock, MinuteOf(pickup))

\* A paid, uncancelled Hivebox booking picked up in the last hour of yesterday.
Row(booking_id, phone_number, city) ==
    [booking_id |-> booking_id, phone_number |-> phone_number, city |-> city,
     pickup |-> "yesterday 23:10", cancelled |-> FALSE, paid |-> TRUE,
     storage_type |-> "hivebox_locker_bank"]

\* getYesterdayPickups(client) without targetDate
getYesterdayPickups(table) ==
    LET Selected(b) == /\ PickedUpYesterday(b.pickup)
                       /\ b.phone_number # NULL
                       /\ b.phone_number # ""
                       /\ b.cancelled = FALSE
    IN  SelectSeq(table, Selected)

\* getHiveboxPreviousHourPickups leaving out the bookings the send log already
\* holds a 'sent' entry for.
getHiveboxPreviousHourPickupsUnsent(table) ==
    LET Selected(b) == /\ b.storage_type = "hivebox_locker_bank"
                       /\ PickedUpPreviousHour(b.pickup)
                       /\ b.cancelled = FALSE
                       /\ b.paid = TRUE
                       /\ b.phone_number # NULL
                       /\ b.phone_number # ""
                       /\ \A n \in DOMAIN smsLog :
                              ~(smsLog[n].booking_id = b.booking_id /\ smsLog[n].status = "sent")
    IN  SelectSeq(table, Selected)

\* getHiveboxPreviousHourPickups(client)
getHiveboxPreviousHourPickups(table) ==
    LET Selected(b) == /\ b.storage_type = "hivebox_locker_bank"
                       /\ PickedUpPreviousHour(b.pickup)
                       /\ b.cancelled = FALSE
                       /\ b.paid = TRUE
                       /\ b.phone_number # NULL
                       /\ b.phone_number # ""
    IN  SelectSeq(table, Selected)

BookingRows ==
    { Row(101, "+447911123456", "London"),
      Row(102, " 07911000000", "Glasgow"),
      Row(103, "+14155550100", "London"),
      Row(104, "  ", NULL) }

\* FEATURE_NAME of the hourly job
FEATURE_NAME == "hivebox_pickup_reminder"

\* config.smsDelayMs (SMS_DELAY_MS, default 200)
smsDelayMs == 200

\* DateTime.now().setZone(config.timezone).toISO()
NowISO == "ts"

\* The minute of the hour at which the hourly cron fires ('2 * * * *').
StartClock == 2

\* runJob's stats at its start
ZeroJobStats ==
    [found |-> 0, eligible |-> 0, skippedNoPhone |-> 0, skippedInvalidPhone |-> 0,
     skippedOptedOut |-> 0, skippedNoReviewLink |-> 0, skippedNonUK |-> 0,
     sent |-> 0, failed |-> 0]

\* runHiveboxReminderJob's stats at its start
ZeroHiveboxJobStats ==
    [fetched |-> 0, sent |-> 0, skippedOptedOut |-> 0, skippedInvalidPhone |-> 0,
     skippedNonUK |-> 0, failed |-> 0]

\* A run slot no trigger has used yet.
IdleRun ==
    [pc |-> "idle", job |-> "none", isDryRun |-> FALSE, bookings |-> <<>>,
     verdicts |-> <<>>, eligibleBookings |-> <<>>, i |-> 0, jobRunId |-> 0,
     stats |-> ZeroJobStats, client |-> "none", startedAt |-> 0, queriedAt |-> 0]

\* No preview request has been made.
IdlePreview == [pc |-> "idle", kind |-> "none", client |-> "none", body |-> <<>>]

\* renderTemplate has not been called.
IdleRender == [pc |-> "idle", template |-> "", vars |-> <<>>, rendered |-> ""]

\* What stands for JavaScript's undefined.
UNDEFINED == "<undefined>"

\* RateLimitedSMS.send has not been called.
IdleSmsCall ==
    [pc |-> "idle", to |-> "", outcome |-> NULL, messageId |-> UNDEFINED,
     error |-> [code |-> UNDEFINED, message |-> UNDEFINED], delayed |-> FALSE]

\* A storage that takes every insert, no preview request, no rendering.
InitQuiet ==
    /\ logFaults = <<>>
    /\ preview = IdlePreview
    /\ render = IdleRender
    /\ csvFile = CHOOSE file \in CsvFiles :
                     file.state # "malformed" /\ loadReviewLinks(file) = reviewLinksMap
    /\ lookup = NoLookup
    /\ clock = StartClock
    /\ smsCall = IdleSmsCall

Init ==
    /\ dryRun \in BOOLEAN
    /\ reviewLinksMap \in LinkPools
    /\ pickups \in SeqsUpTo(BookingRows, MaxFetch)
    /\ optOuts = {}
    /\ smsLog = <<>>
    /\ jobRunSummary = <<>>
    /\ sends = <<>>
    /\ runs = [r \in RunIds |-> IdleRun]
    /\ InitQuiet

(***************************************************************************)
(* Job run summary and send log (sqlite.ts).                               *)
(***************************************************************************)

\* createJobRunSummary: the table after the insert; the new id is its length
createJobRunSummary(table, summary) == Append(table, summary)

\* The columns updateJobRunSummary writes when the update names them.
UpdatableColumns == {"finished_at", "sent_count", "skipped_count", "failed_count", "error"}

\* updateJobRunSummary writing to the newest row, whatever id it is given.
updateJobRunSummaryNewest(table, id, updates) ==
    LET fields == DOMAIN updates \cap UpdatableColumns
    IN  IF fields = {} \/ table = <<>> THEN table
        ELSE [table EXCEPT ![Len(table)] =
                 [c \in DOMAIN table[Len(table)] |->
                     IF c \in fields THEN updates[c] ELSE table[Len(table)][c]]]

\* updateJobRunSummary(id, updates): UPDATE job_run_summary SET ... WHERE id = ?
updateJobRunSummary(table, id, updates) ==
    LET fields == DOMAIN updates \cap UpdatableColumns
    IN  IF fields = {} \/ id \notin DOMAIN table THEN table
        ELSE [table EXCEPT ![id] =
                 [c \in DOMAIN table[id] |->
                     IF c \in fields THEN updates[c] ELSE table[id][c]]]

\* logSMS writing over the newest entry of the table instead of inserting.
logSMSOverwritesLast(log, rid, idx, booking, phone, status, error) ==
    LET entry == [feature |-> FEATURE_NAME, booking_id |-> booking.booking_id,
                  phone |-> phone, status |-> status, error |-> error,
                  run |-> rid, idx |-> idx]
    IN  IF log = <<>> THEN <<entry>> ELSE [log EXCEPT ![Len(log)] = entry]

\* logSMS: INSERT INTO sms_send_log.  run and idx are not columns: they
\* remember which run wrote the entry, and for which fetched row.
logSMS(log, rid, idx, booking, phone, status, error) ==
    Append(log, [feature |-> FEATURE_NAME, booking_id |-> booking.booking_id,
                 phone |-> phone, status |-> status, error |-> error,
                 run |-> rid, idx |-> idx])

\* One invocation of RateLimitedSMS.send.  network tells whether sendSMS
\* issued the TextMagic request (it does not in dry-run mode); result is
\* "pending" while the request is in flight, then "ok" or "failed".
SendCall(rid, idx, booking, to, network) ==
    [run |-> rid, job |-> runs[rid].job, idx |-> idx, booking_id |-> booking.booking_id,
     to |-> to, network |-> network, result |-> IF network THEN "pending" ELSE "ok"]

\* What one segment of a run works on: the run's locals and the stores it writes.
\* threw tells that the last insert into sms_send_log threw.
Bundle(r) ==
    [run |-> runs[r], sends |-> sends, smsLog |-> smsLog, jobRunSummary |-> jobRunSummary,
     logFaults |-> logFaults, threw |-> FALSE]

\* The finally block of a trigger without the release when the run threw.
FinallyOnReturnOnly(run) ==
    IF run.pc = "returned" THEN [run EXCEPT !.client = "released"] ELSE run

\* The finally block of the trigger that called the job: client.release(),
\* once the job returned or threw.
Finally(run) ==
    IF run.pc \in {"returned", "thrown"} THEN [run EXCEPT !.client = "released"] ELSE run

\* The segment of run r ends with b.
Commit(r, b) ==
    /\ runs' = [runs EXCEPT ![r] = Finally(b.run)]
    /\ sends' = b.sends
    /\ smsLog' = b.smsLog
    /\ jobRunSummary' = b.jobRunSummary
    /\ logFaults' = b.logFaults

\* logSMS on a storage that may refuse the insert: the entry is appended, or
\* the call throws and the table stays as it was.
TryLogSMS(b, rid, idx, booking, phone, status, error) ==
    IF b.logFaults # <<>> /\ Head(b.logFaults)
    THEN [b EXCEPT !.logFaults = Tail(@), !.threw = TRUE]
    ELSE [b EXCEPT !.logFaults = IF @ = <<>> THEN @ ELSE Tail(@),
                   !.smsLog = logSMS(@, rid, idx, booking, phone, status, error)]

(***************************************************************************)
(* Daily job (job.ts, runJob).                                             *)
(***************************************************************************)

\* DailyVerdict with the opt-out check moved before the UK check.
DailyVerdictOptOutFirst(booking, ledger, links, pick) ==
    LET skip(reason) == [reason |-> reason, phoneE164 |-> NULL, reviewUrl |-> NULL,
                         usedLondonFallback |-> FALSE]
    IN
    IF booking.phone_number = NULL \/ booking.phone_number = "" THEN skip("no_phone")
    ELSE LET e164 == normalizePhone(booking.phone_number) IN
    IF e164 = NULL THEN skip("invalid_phone")
    ELSE IF isOptedOut(ledger, e164) THEN skip("opted_out")
    ELSE IF ~(StartsWith(e164, "+44") \/ StartsWith(Trim(booking.phone_number), "07"))
    THEN skip("non_uk")
    ELSE LET own == IF booking.city # NULL /\ booking.city # ""
                       /\ hasReviewLinks(links, booking.city)
                    THEN getRandomReviewUrl(links, booking.city, FALSE, pick)
                    ELSE NULL
             reviewUrl == IF own = NULL
                          THEN getRandomReviewUrl(links, "london", FALSE, pick)
                          ELSE own
         IN  IF reviewUrl = NULL THEN skip("no_review_link")
             ELSE [reason |-> "eligible", phoneE164 |-> e164, reviewUrl |-> reviewUrl,
                   usedLondonFallback |-> (own = NULL)]

\* DailyVerdict without the UK check: every valid number goes on to the
\* opt-out check.
DailyVerdictNoUKCheck(booking, ledger, links, pick) ==
    LET skip(reason) == [reason |-> reason, phoneE164 |-> NULL, reviewUrl |-> NULL,
                         usedLondonFallback |-> FALSE]
    IN
    IF booking.phone_number = NULL \/ booking.phone_number = "" THEN skip("no_phone")
    ELSE LET e164 == normalizePhone(booking.phone_number) IN
    IF e164 = NULL THEN skip("invalid_phone")
    ELSE IF isOptedOut(ledger, e164) THEN skip("opted_out")
    ELSE LET own == IF booking.city # NULL /\ booking.city # ""
                       /\ hasReviewLinks(links, booking.city)
                    THEN getRandomReviewUrl(links, booking.city, FALSE, pick)
                    ELSE NULL
             reviewUrl == IF own = NULL
                          THEN getRandomReviewUrl(links, "london", FALSE, pick)
                          ELSE own
         IN  IF reviewUrl = NULL THEN skip("no_review_link")
             ELSE [reason |-> "eligible", phoneE164 |-> e164, reviewUrl |-> reviewUrl,
                   usedLondonFallback |-> (own = NULL)]

\* One iteration of runJob's first pass: what happens to one booking.
DailyVerdict(booking, ledger, links, pick) ==
    LET skip(reason) == [reason |-> reason, phoneE164 |-> NULL, reviewUrl |-> NULL,
                         usedLondonFallback |-> FALSE]
    IN
    IF booking.phone_number = NULL \/ booking.phone_number = "" THEN skip("no_phone")
    ELSE LET e164 == normalizePhone(booking.phone_number) IN
    IF e164 = NULL THEN skip("invalid_phone")
    ELSE IF ~(StartsWith(e164, "+44") \/ StartsWith(Trim(booking.phone_number), "07"))
    THEN skip("non_uk")
    ELSE IF isOptedOut(ledger, e164) THEN skip("opted_out")
    ELSE LET own == IF booking.city # NULL /\ booking.city # ""
                       /\ hasReviewLinks(links, booking.city)
                    THEN getRandomReviewUrl(links, booking.city, FALSE, pick)
                    ELSE NULL
             reviewUrl == IF own = NULL
                          THEN getRandomReviewUrl(links, "london", FALSE, pick)
                          ELSE own
         IN  IF reviewUrl = NULL THEN skip("no_review_link")
             ELSE [reason |-> "eligible", phoneE164 |-> e164, reviewUrl |-> reviewUrl,
                   usedLondonFallback |-> (own = NULL)]

\* DailyCount with the increment of skippedNonUK left out.
DailyCountForgetsNonUK(stats, reason) ==
    CASE reason = "no_phone"       -> [stats EXCEPT !.skippedNoPhone = @ + 1]
      [] reason = "invalid_phone"  -> [stats EXCEPT !.skippedInvalidPhone = @ + 1]
      [] reason = "non_uk"         -> stats
      [] reason = "opted_out"      -> [stats EXCEPT !.skippedOptedOut = @ + 1]
      [] reason = "no_review_link" -> [stats EXCEPT !.skippedNoReviewLink = @ + 1]
      [] reason = "eligible"       -> [stats EXCEPT !.eligible = @ + 1]

\* The counter runJob's first pass increments for a verdict.
DailyCount(stats, reason) ==
    CASE reason = "no_phone"       -> [stats EXCEPT !.skippedNoPhone = @ + 1]
      [] reason = "invalid_phone"  -> [stats EXCEPT !.skippedInvalidPhone = @ + 1]
      [] reason = "non_uk"         -> [stats EXCEPT !.skippedNonUK = @ + 1]
      [] reason = "opted_out"      -> [stats EXCEPT !.skippedOptedOut = @ + 1]
      [] reason = "no_review_link" -> [stats EXCEPT !.skippedNoReviewLink = @ + 1]
      [] reason = "eligible"       -> [stats EXCEPT !.eligible = @ + 1]

\* runJob's first pass from booking k on: filter and validate.
RECURSIVE DailyFirstPass(_, _, _)
DailyFirstPass(run, k, picks) ==
    IF k > Len(run.bookings) THEN run
    ELSE LET booking == run.bookings[k]
             v == DailyVerdict(booking, optOuts, reviewLinksMap, picks[k])
             counted == [run EXCEPT !.stats = DailyCount(@, v.reason),
                                    !.verdicts = Append(@, v.reason)]
         IN  DailyFirstPass(
                 IF v.reason = "eligible"
                 THEN [counted EXCEPT !.eligibleBookings =
                          Append(@, [idx |-> k, booking |-> booking,
                                     phoneE164 |-> v.phoneE164, reviewUrl |-> v.reviewUrl])]
                 ELSE counted,
                 k + 1, picks)

\* runJob's catch block of the second pass: the send for eligible booking i failed.
DailySendFailed(run) == [run EXCEPT !.stats.failed = @ + 1]

\* runJob, after rateLimitedSMS.send resolved for eligible booking i.
DailySendResolved(run) == [run EXCEPT !.stats.sent = @ + 1]

\* runJob's second pass from eligible booking i on, up to the next TextMagic
\* request or the return.  b holds the run's locals and the send history.
RECURSIVE DailySecondPass(_, _, _)
DailySecondPass(rid, b, i) ==
    IF i > Len(b.run.eligibleBookings)
    THEN [b EXCEPT !.run.pc = "returned"]
    ELSE LET e == b.run.eligibleBookings[i]
             call == SendCall(rid, e.idx, e.booking, e.phoneE164, ~dryRun)
             called == [b EXCEPT !.sends = Append(@, call), !.run.i = i]
         IN  IF dryRun
             THEN DailySecondPass(rid, [called EXCEPT !.run = DailySendResolved(@)], i + 1)
             ELSE [called EXCEPT !.run.pc = "sending"]

\* A trigger (daily cron, RUN_JOB at startup, POST /api/run-job) acquires a
\* client and calls runJob, which runs up to the data-source query.
TriggerDailyJob(r) ==
    /\ runs[r].pc = "idle"
    /\ \A q \in RunIds : q < r => runs[q].pc # "idle"
    /\ runs' = [runs EXCEPT ![r] = [IdleRun EXCEPT !.pc = "fetching", !.job = "daily",
                                                   !.stats = ZeroJobStats,
                                                   !.client = "held"]]
    /\ UNCHANGED <<dryRun, reviewLinksMap, pickups, optOuts, smsLog, jobRunSummary, sends,
                 logFaults, preview, render, csvFile, lookup, clock, smsCall>>

\* getYesterdayPickups returned: runJob runs its first pass and its second
\* pass up to the first TextMagic request.
DailyFetched(r) ==
    /\ runs[r].pc = "fetching" /\ runs[r].job = "daily"
    /\ \E picks \in [1..Len(getYesterdayPickups(pickups)) -> 1..MaxLinks] :
          LET bookings == getYesterdayPickups(pickups)
              fetched == [runs[r] EXCEPT !.bookings = bookings, !.stats.found = Len(bookings)]
          IN  IF Len(bookings) = 0
              THEN Commit(r, [Bundle(r) EXCEPT !.run = [fetched EXCEPT !.pc = "returned"]])
              ELSE Commit(r, DailySecondPass(r,
                       [Bundle(r) EXCEPT !.run = DailyFirstPass(fetched, 1, picks)], 1))
    /\ UNCHANGED <<dryRun, reviewLinksMap, pickups, optOuts, preview, render, csvFile, lookup, clock, smsCall>>

\* getYesterdayPickups threw: runJob has no handler, the error reaches the trigger.
DailyFetchFailed(r) ==
    /\ runs[r].pc = "fetching" /\ runs[r].job = "daily"
    /\ runs' = [runs EXCEPT ![r] = Finally([@ EXCEPT !.pc = "thrown"])]
    /\ UNCHANGED <<dryRun, reviewLinksMap, pickups, optOuts, smsLog, jobRunSummary, sends,
                 logFaults, preview, render, csvFile, lookup, clock, smsCall>>

(***************************************************************************)
(* Hourly job (hiveboxReminders/service.ts, runHiveboxReminderJob).        *)
(***************************************************************************)

\* HourlyVerdict without the look into the ledger.
HourlyVerdictIgnoresLedger(booking, ledger) ==
    LET e164 == normalizePhone(booking.phone_number) IN
    IF e164 = NULL THEN [reason |-> "invalid_phone", phoneE164 |-> NULL]
    ELSE IF ~isUKNumber(e164, booking.phone_number)
    THEN [reason |-> "non_uk", phoneE164 |-> e164]
    ELSE [reason |-> "eligible", phoneE164 |-> e164]

\* The filter checks of one iteration of the hourly loop.
HourlyVerdict(booking, ledger) ==
    LET e164 == normalizePhone(booking.phone_number) IN
    IF e164 = NULL THEN [reason |-> "invalid_phone", phoneE164 |-> NULL]
    ELSE IF ~isUKNumber(e164, booking.phone_number)
    THEN [reason |-> "non_uk", phoneE164 |-> e164]
    ELSE IF isOptedOut(ledger, e164) THEN [reason |-> "opted_out", phoneE164 |-> e164]
    ELSE [reason |-> "eligible", phoneE164 |-> e164]

\* The counter and the log entry of a skipped booking k.
HourlySkip(rid, b, k, v) ==
    LET booking == b.run.bookings[k] IN
    CASE v.reason = "invalid_phone" ->
           TryLogSMS([b EXCEPT !.run.stats.skippedInvalidPhone = @ + 1], rid, k, booking,
                     IF booking.phone_number = NULL \/ booking.phone_number = ""
                     THEN "unknown" ELSE booking.phone_number,
                     "skipped_invalid_phone", "Invalid phone number format")
      [] v.reason = "non_uk" ->
           TryLogSMS([b EXCEPT !.run.stats.skippedNonUK = @ + 1], rid, k, booking,
                     v.phoneE164, "skipped_non_uk", "Non-UK phone number")
      [] v.reason = "opted_out" ->
           TryLogSMS([b EXCEPT !.run.stats.skippedOptedOut = @ + 1], rid, k, booking,
                     v.phoneE164, "skipped_opted_out", NULL)

\* The inner catch block: the try block of booking k threw errorMessage.
HourlySendFailed(rid, b, k, errorMessage) ==
    TryLogSMS([b EXCEPT !.run.stats.failed = @ + 1, !.threw = FALSE], rid, k,
              b.run.bookings[k], normalizePhone(b.run.bookings[k].phone_number),
              "failed", errorMessage)

\* The try block after the send of booking k resolved (or in the dry-run
\* branch): count the send and log it; a throwing logSMS lands in the inner
\* catch block like a throwing send.
HourlySendResolved(rid, b, k) ==
    LET logged == TryLogSMS([b EXCEPT !.run.stats.sent = @ + 1], rid, k, b.run.bookings[k],
                            normalizePhone(b.run.bookings[k].phone_number), "sent", NULL)
    IN  IF logged.threw THEN HourlySendFailed(rid, logged, k, "SQLITE_FULL") ELSE logged

\* The outer catch block rethrowing without stamping the summary.
HourlyOuterCatchUnstamped(b, errorMessage) ==
    [b EXCEPT !.run.pc = "thrown", !.threw = FALSE]

\* The outer catch block: stamp the summary with the error and rethrow.
HourlyOuterCatch(b, errorMessage) ==
    [b EXCEPT !.jobRunSummary =
                  updateJobRunSummary(@, b.run.jobRunId,
                      [finished_at |-> NowISO, error |-> errorMessage]),
              !.run.pc = "thrown", !.threw = FALSE]

\* After the loop: stamp the summary and return the stats.
HourlyFinish(b) ==
    LET st == b.run.stats
        skippedTotal == st.skippedOptedOut + st.skippedInvalidPhone + st.skippedNonUK
    IN  [b EXCEPT !.jobRunSummary =
                      updateJobRunSummary(@, b.run.jobRunId,
                          [finished_at |-> NowISO, sent_count |-> st.sent,
                           skipped_count |-> skippedTotal, failed_count |-> st.failed]),
                  !.run.pc = "returned"]

\* The loop over the bookings from booking k on, up to the next TextMagic
\* request, the return or the throw.  b.threw: a logSMS of the iteration
\* before threw past the inner try block.
RECURSIVE HourlyLoop(_, _, _)
HourlyLoop(rid, b, k) ==
    IF b.threw THEN HourlyOuterCatch(b, "SQLITE_FULL")
    ELSE IF k > Len(b.run.bookings) THEN HourlyFinish(b)
    ELSE LET booking == b.run.bookings[k]
             v == HourlyVerdict(booking, optOuts)
             judged == [b EXCEPT !.run.verdicts = Append(@, v.reason), !.run.i = k]
         IN  IF v.reason # "eligible"
             THEN HourlyLoop(rid, HourlySkip(rid, judged, k, v), k + 1)
             ELSE IF b.run.isDryRun
             THEN HourlyLoop(rid, HourlySendResolved(rid, judged, k), k + 1)
             ELSE LET call == SendCall(rid, k, booking, v.phoneE164, ~dryRun)
                      called == [judged EXCEPT !.sends = Append(@, call)]
                  IN  IF dryRun
                      THEN HourlyLoop(rid, HourlySendResolved(rid, called, k), k + 1)
                      ELSE [called EXCEPT !.run.pc = "sending"]

\* A trigger (hourly cron, POST /api/hivebox/run) acquires a client and calls
\* runHiveboxReminderJob, which creates its summary row and runs up to the
\* data-source query.
TriggerHourlyJob(r, isDryRun) ==
    /\ runs[r].pc = "idle"
    /\ \A q \in RunIds : q < r => runs[q].pc # "idle"
    /\ jobRunSummary' = createJobRunSummary(jobRunSummary,
           [feature |-> FEATURE_NAME, started_at |-> NowISO, finished_at |-> NULL,
            fetched_count |-> 0, sent_count |-> 0, skipped_count |-> 0,
            failed_count |-> 0, error |-> NULL])
    /\ runs' = [runs EXCEPT ![r] = [IdleRun EXCEPT !.pc = "fetching", !.job = "hourly",
                                                   !.isDryRun = isDryRun,
                                                   !.jobRunId = Len(jobRunSummary) + 1,
                                                   !.stats = ZeroHiveboxJobStats,
                                                   !.client = "held",
                                                   !.startedAt = clock]]
    /\ UNCHANGED <<dryRun, reviewLinksMap, pickups, optOuts, smsLog, sends,
                 logFaults, preview, render, csvFile, lookup, clock, smsCall>>

\* getHiveboxPreviousHourPickups returned.
HourlyFetched(r) ==
    /\ runs[r].pc = "fetching" /\ runs[r].job = "hourly"
    /\ LET bookings == getHiveboxPreviousHourPickups(pickups)
           fetched == [runs[r] EXCEPT !.bookings = bookings, !.stats.fetched = Len(bookings),
                                      !.queriedAt = clock]
           counted == [Bundle(r) EXCEPT
                          !.run = fetched,
                          !.jobRunSummary = updateJobRunSummary(@, fetched.jobRunId,
                                                [fetched_count |-> Len(bookings)])]
       IN  IF Len(bookings) = 0
           THEN Commit(r, [counted EXCEPT
                              !.jobRunSummary = updateJobRunSummary(@, fetched.jobRunId,
                                                    [finished_at |-> NowISO]),
                              !.run.pc = "returned"])
           ELSE Commit(r, HourlyLoop(r, counted, 1))
    /\ UNCHANGED <<dryRun, reviewLinksMap, pickups, optOuts, preview, render, csvFile, lookup, clock, smsCall>>

\* getHiveboxPreviousHourPickups threw: the outer catch stamps the summary
\* and rethrows.
HourlyFetchFailed(r) ==
    /\ runs[r].pc = "fetching" /\ runs[r].job = "hourly"
    /\ jobRunSummary' = HourlyOuterCatch(Bundle(r), "query failed").jobRunSummary
    /\ runs' = [runs EXCEPT ![r] = Finally([@ EXCEPT !.pc = "thrown"])]
    /\ UNCHANGED <<dryRun, reviewLinksMap, pickups, optOuts, smsLog, sends,
                 logFaults, preview, render, csvFile, lookup, clock, smsCall>>

(***************************************************************************)
(* Rate-limited sender (textmagic.ts): completion of a TextMagic request.  *)
(***************************************************************************)

\* The send history with the request of run r that is in flight settled.
Settle(history, r, result) ==
    [n \in DOMAIN history |->
        IF history[n].run = r /\ history[n].result = "pending"
        THEN [history[n] EXCEPT !.result = result]
        ELSE history[n]]

\* SendReturned with the hourly log entry of a live send left out.
SendReturnedUnlogged(r, b) ==
    IF b.run.job = "daily"
    THEN DailySecondPass(r, [b EXCEPT !.run = DailySendResolved(@)], b.run.i + 1)
    ELSE HourlyLoop(r, [b EXCEPT !.run.stats.sent = @ + 1], b.run.i + 1)

\* rateLimitedSMS.send returned to the loop of run r: count (and log) the
\* send, go on with the next booking.
SendReturned(r, b) ==
    IF b.run.job = "daily"
    THEN DailySecondPass(r, [b EXCEPT !.run = DailySendResolved(@)], b.run.i + 1)
    ELSE HourlyLoop(r, HourlySendResolved(r, b, b.run.i), b.run.i + 1)

\* SendThrew without the catch block: the error leaves the loop and the run.
SendThrewAborts(r, b) == [b EXCEPT !.run.pc = "thrown"]

\* rateLimitedSMS.send threw into the loop of run r: the catch block of the
\* iteration, then the next booking.
SendThrew(r, b) ==
    IF b.run.job = "daily"
    THEN DailySecondPass(r, [b EXCEPT !.run = DailySendFailed(@)], b.run.i + 1)
    ELSE HourlyLoop(r, HourlySendFailed(r, b, b.run.i, "HTTP 500"), b.run.i + 1)

\* SendSucceeded with RateLimitedSMS.send returning without its delay.
SendSucceededNoDelay(r) ==
    /\ runs[r].pc = "sending"
    /\ Commit(r, SendReturned(r, [Bundle(r) EXCEPT !.sends = Settle(@, r, "ok")]))
    /\ UNCHANGED <<dryRun, reviewLinksMap, pickups, optOuts, preview, render, csvFile, lookup, clock, smsCall>>

\* The TextMagic request of run r succeeded: sendSMS returns the message id
\* and RateLimitedSMS.send starts its delay.
SendSucceeded(r) ==
    /\ runs[r].pc = "sending"
    /\ LET settled == [Bundle(r) EXCEPT !.sends = Settle(@, r, "ok")]
       IN  IF ~dryRun /\ smsDelayMs > 0
           THEN Commit(r, [settled EXCEPT !.run.pc = "delaying"])
           ELSE Commit(r, SendReturned(r, settled))
    /\ UNCHANGED <<dryRun, reviewLinksMap, pickups, optOuts, preview, render, csvFile, lookup, clock, smsCall>>

\* The delay of RateLimitedSMS.send elapsed.
DelayElapsed(r) ==
    /\ runs[r].pc = "delaying"
    /\ Commit(r, SendReturned(r, Bundle(r)))
    /\ UNCHANGED <<dryRun, reviewLinksMap, pickups, optOuts, preview, render, csvFile, lookup, clock, smsCall>>

\* The TextMagic request of run r failed (HTTP error status or network
\* error): sendSMS throws {code, message}, without delay.
SendFailed(r) ==
    /\ runs[r].pc = "sending"
    /\ Commit(r, SendThrew(r, [Bundle(r) EXCEPT !.sends = Settle(@, r, "failed")]))
    /\ UNCHANGED <<dryRun, reviewLinksMap, pickups, optOuts, preview, render, csvFile, lookup, clock, smsCall>>

(***************************************************************************)
(* Inbound webhook and opt-out API (webhook.ts).                           *)
(***************************************************************************)

STOP_KEYWORDS == {"STOP", "STOPALL", "UNSUBSCRIBE", "CANCEL", "END", "QUIT"}

OPT_IN_KEYWORDS == {"START", "YES", "UNSTOP"}

\* The texts and the phones the requests of this model carry.
InboundTexts == {" stop ", "Start"}

RequestPhones == {"07911000000"}

\* handleInboundSMS comparing the keywords with the text as it was sent,
\* without toUpperCase.
handleInboundSMSCaseSensitive(ledger, text, from) ==
    LET e164 == normalizePhone(from)
        trimmed == Trim(text)
    IN  IF e164 = NULL THEN ledger
        ELSE IF \E keyword \in STOP_KEYWORDS : Includes(trimmed, keyword)
        THEN addOptOut(ledger, e164, "inbound_sms_stop", text)
        ELSE IF \E keyword \in OPT_IN_KEYWORDS : Includes(trimmed, keyword)
        THEN removeOptOut(ledger, e164)
        ELSE ledger

\* handleInboundSMS storing the sender's number as it arrived.
handleInboundSMSRawKey(ledger, text, from) ==
    LET upperText == ToUpperCase(Trim(text))
    IN  IF \E keyword \in STOP_KEYWORDS : Includes(upperText, keyword)
        THEN addOptOut(ledger, from, "inbound_sms_stop", text)
        ELSE IF \E keyword \in OPT_IN_KEYWORDS : Includes(upperText, keyword)
        THEN removeOptOut(ledger, from)
        ELSE ledger

\* The ledger after handleInboundSMS(text, from).
handleInboundSMS(ledger, text, from) ==
    LET e164 == normalizePhone(from)
        upperText == ToUpperCase(Trim(text))
    IN  IF e164 = NULL THEN ledger
        ELSE IF \E keyword \in STOP_KEYWORDS : Includes(upperText, keyword)
        THEN addOptOut(ledger, e164, "inbound_sms_stop", text)
        ELSE IF \E keyword \in OPT_IN_KEYWORDS : Includes(upperText, keyword)
        THEN removeOptOut(ledger, e164)
        ELSE ledger

\* The action handleInboundSMS(text, from) returns.
handleInboundSMSAction(ledger, text, from) ==
    LET e164 == normalizePhone(from)
        upperText == ToUpperCase(Trim(text))
    IN  IF e164 = NULL THEN "none"
        ELSE IF \E keyword \in STOP_KEYWORDS : Includes(upperText, keyword)
        THEN "opted_out"
        ELSE IF /\ \E keyword \in OPT_IN_KEYWORDS : Includes(upperText, keyword)
                /\ removeOptOutChanged(ledger, e164)
        THEN "opted_in"
        ELSE "none"

\* POST /webhook/inbound
InboundSMS(text, from) ==
    /\ optOuts' = handleInboundSMS(optOuts, text, from)
    /\ UNCHANGED <<dryRun, reviewLinksMap, pickups, smsLog, jobRunSummary, sends, runs,
                 logFaults, preview, render, csvFile, lookup, clock, smsCall>>

\* The handler of POST /api/opt-outs: the status it answers with and the
\* ledger it leaves.
PostOptOut(ledger, phone, source, note) ==
    IF phone = "" \/ normalizePhone(phone) = NULL
    THEN [status |-> 400, ledger |-> ledger]
    ELSE [status |-> 200,
          ledger |-> addOptOut(ledger, normalizePhone(phone),
                               IF source = "" THEN "manual" ELSE source, note)]

\* The handler of DELETE /api/opt-outs/:phone
DeleteOptOut(ledger, phone) ==
    IF normalizePhone(phone) = NULL THEN [status |-> 400, ledger |-> ledger]
    ELSE [status |-> IF removeOptOutChanged(ledger, normalizePhone(phone)) THEN 200 ELSE 404,
          ledger |-> removeOptOut(ledger, normalizePhone(phone))]

\* POST /api/opt-outs {phone, source, note}
ApiAddOptOut(phone, source, note) ==
    /\ optOuts' = PostOptOut(optOuts, phone, source, note).ledger
    /\ UNCHANGED <<dryRun, reviewLinksMap, pickups, smsLog, jobRunSummary, sends, runs,
                 logFaults, preview, render, csvFile, lookup, clock, smsCall>>

\* DELETE /api/opt-outs/:phone
ApiRemoveOptOut(phone) ==
    /\ optOuts' = DeleteOptOut(optOuts, phone).ledger
    /\ UNCHANGED <<dryRun, reviewLinksMap, pickups, smsLog, jobRunSummary, sends, runs,
                 logFaults, preview, render, csvFile, lookup, clock, smsCall>>

\* Most requests to POST /api/test-sms in one behaviour of this model.
MaxTestSends == 2

\* POST /api/test-sms {phone_number, stashpoint_name, city}: validate,
\* resolve a review link, call sendSMS directly.  A request that fails a
\* check is answered with status 400 and changes nothing.
ApiTestSms(phone_number, stashpoint_name, city, pick) ==
    LET e164 == normalizePhone(phone_number)
        own == IF hasReviewLinks(reviewLinksMap, city)
               THEN getRandomReviewUrl(reviewLinksMap, city, FALSE, pick) ELSE NULL
        reviewUrl == IF own = NULL
                     THEN getRandomReviewUrl(reviewLinksMap, "london", FALSE, pick) ELSE own
        accepted ==
            /\ phone_number # "" /\ stashpoint_name # "" /\ city # ""
            /\ e164 # NULL
            /\ (StartsWith(e164, "+44") \/ StartsWith(Trim(phone_number), "07"))
            /\ reviewUrl # NULL
    IN  /\ Len(sends) < MaxTestSends
        /\ sends' = IF accepted
                     THEN Append(sends, [run |-> 0, job |-> "test", idx |-> 0, booking_id |-> 0,
                                         to |-> e164, network |-> ~dryRun,
                                         result |-> IF dryRun THEN "ok" ELSE "pending"])
                     ELSE sends
        /\ UNCHANGED <<dryRun, reviewLinksMap, pickups, optOuts, smsLog, jobRunSummary, runs,
                 logFaults, preview, render, csvFile, lookup, clock, smsCall>>

\* The TextMagic request of a test SMS succeeded (the endpoint answers with
\* the message id) or failed (it answers with status 400 or 500).
TestSmsSettled(n, result) ==
    /\ n \in DOMAIN sends
    /\ sends[n].job = "test" /\ sends[n].result = "pending"
    /\ sends' = [sends EXCEPT ![n].result = result]
    /\ UNCHANGED <<dryRun, reviewLinksMap, pickups, optOuts, smsLog, jobRunSummary, runs,
                 logFaults, preview, render, csvFile, lookup, clock, smsCall>>

(***************************************************************************)
(* The system.                                                             *)
(***************************************************************************)

Next ==
    \/ \E r \in RunIds : TriggerDailyJob(r)
    \/ \E r \in RunIds : DailyFetched(r)
    \/ \E r \in RunIds : DailyFetchFailed(r)
    \/ \E r \in RunIds, isDryRun \in BOOLEAN : TriggerHourlyJob(r, isDryRun)
    \/ \E r \in RunIds : HourlyFetched(r)
    \/ \E r \in RunIds : HourlyFetchFailed(r)
    \/ \E r \in RunIds : SendSucceeded(r)
    \/ \E r \in RunIds : DelayElapsed(r)
    \/ \E r \in RunIds : SendFailed(r)
    \/ \E text \in InboundTexts, from \in RequestPhones : InboundSMS(text, from)
    \/ \E phone \in RequestPhones : ApiAddOptOut(phone, "", "")
    \/ \E phone \in RequestPhones : ApiRemoveOptOut(phone)

Spec == Init /\ [][Next]_vars

(***************************************************************************)
(* Job runs over a ledger no request changes while they run: what a run    *)
(* leaves behind as a function of the fetched rows, the ledger and the     *)
(* pool, in dry-run and in live mode.                                      *)
(***************************************************************************)

AuditLedgers ==
    { {}, {[phone_e164 |-> "+447911000000", source |-> "manual", note |-> NULL]} }

InitAudit ==
    /\ dryRun \in BOOLEAN
    /\ reviewLinksMap \in LinkPools
    /\ pickups \in SeqsUpTo(BookingRows, MaxFetch)
    /\ optOuts \in AuditLedgers
    /\ smsLog = <<>>
    /\ jobRunSummary = <<>>
    /\ sends = <<>>
    /\ runs = [r \in RunIds |-> IdleRun]
    /\ InitQuiet

NextAudit ==
    \/ \E r \in RunIds : TriggerDailyJob(r)
    \/ \E r \in RunIds : DailyFetched(r)
    \/ \E r \in RunIds, isDryRun \in BOOLEAN : TriggerHourlyJob(r, isDryRun)
    \/ \E r \in RunIds : HourlyFetched(r)
    \/ \E r \in RunIds : SendSucceeded(r)
    \/ \E r \in RunIds : DelayElapsed(r)
    \/ \E r \in RunIds : SendFailed(r)

SpecAudit == InitAudit /\ [][NextAudit]_vars

(***************************************************************************)
(* The daily job over rows that differ in their city, and pools that       *)
(* differ in the cities they cover.                                        *)
(***************************************************************************)

LinkCities == {NULL, "", "London", "Glasgow", " glasgow ", "Leeds"}

LinkRows ==
    {Row(301, "+447911123456", c) : c \in LinkCities}

WidePools ==
    { [c \in {} |-> <<>>],
      [c \in {"london"} |-> <<"https://g.page/r/london-1", "https://g.page/r/london-2">>],
      [c \in {"glasgow"} |-> <<"https://g.page/r/glasgow-1">>],
      [c \in {"london", "glasgow"} |->
          IF c = "london" THEN <<"https://g.page/r/london-1", "https://g.page/r/london-2">>
          ELSE <<"https://g.page/r/glasgow-1">>] }

InitLinks ==
    /\ dryRun \in BOOLEAN
    /\ reviewLinksMap \in WidePools
    /\ pickups \in {<<row>> : row \in LinkRows}
    /\ optOuts = {}
    /\ smsLog = <<>>
    /\ jobRunSummary = <<>>
    /\ sends = <<>>
    /\ runs = [r \in RunIds |-> IdleRun]
    /\ InitQuiet

NextLinks ==
    \/ \E r \in RunIds : TriggerDailyJob(r)
    \/ \E r \in RunIds : DailyFetched(r)
    \/ \E r \in RunIds : SendSucceeded(r)
    \/ \E r \in RunIds : DelayElapsed(r)
    \/ \E r \in RunIds : SendFailed(r)

SpecLinks == InitLinks /\ [][NextLinks]_vars

(***************************************************************************)
(* The ledger under the requests that write it: the inbound webhook and    *)
(* the opt-out API, with every keyword and several senders, starting from  *)
(* a ledger that an earlier process left in the database file.             *)
(***************************************************************************)

LedgerTexts ==
    {"STOP", " stop ", "Stopall", "unsubscribe", "CANCEL", "End", "quit",
     "START", " yes ", "Unstop", "hello"}

LedgerPhones == {"07911000000", "+14155550100", "12"}

LedgerSources == {"", "dashboard"}

LedgerNotes == {"", "asked by email"}

InitLedger ==
    /\ dryRun = FALSE
    /\ reviewLinksMap = [c \in {} |-> <<>>]
    /\ pickups = <<>>
    /\ optOuts = {[phone_e164 |-> "+14155550100", source |-> "manual", note |-> "phoned in"]}
    /\ smsLog = <<>>
    /\ jobRunSummary = <<>>
    /\ sends = <<>>
    /\ runs = [r \in RunIds |-> IdleRun]
    /\ InitQuiet

NextLedger ==
    \/ \E text \in LedgerTexts, from \in LedgerPhones : InboundSMS(text, from)
    \/ \E phone \in LedgerPhones, source \in LedgerSources, note \in LedgerNotes :
           ApiAddOptOut(phone, source, note)
    \/ \E phone \in LedgerPhones : ApiRemoveOptOut(phone)

SpecLedger == InitLedger /\ [][NextLedger]_vars

(***************************************************************************)
(* The manual single-send endpoint next to the requests that write the     *)
(* ledger.                                                                 *)
(***************************************************************************)

TestSmsPhones == {"07911000000", "+447911123456", "+14155550100", ""}

TestSmsCities == {"London", "Leeds"}

InitTestSms ==
    /\ dryRun \in BOOLEAN
    /\ reviewLinksMap \in LinkPools
    /\ pickups = <<>>
    /\ optOuts \in AuditLedgers
    /\ smsLog = <<>>
    /\ jobRunSummary = <<>>
    /\ sends = <<>>
    /\ runs = [r \in RunIds |-> IdleRun]
    /\ InitQuiet

NextTestSms ==
    \/ \E phone \in TestSmsPhones, city \in TestSmsCities, pick \in 1..MaxLinks :
           ApiTestSms(phone, "Left Luggage Ltd", city, pick)
    \/ \E n \in 1..MaxTestSends, result \in {"ok", "failed"} : TestSmsSettled(n, result)
    \/ \E text \in InboundTexts, from \in RequestPhones : InboundSMS(text, from)

SpecTestSms == InitTestSms /\ [][NextTestSms]_vars

(***************************************************************************)
(* The filter checks as a function of one row, a ledger and a pool: every  *)
(* phone and city shape of a BookingRow (phone_number: string | null),     *)
(* one row per fetch, the ledger as earlier requests left it.              *)
(***************************************************************************)

FilterPhones ==
    {NULL, "  ", "+447911123456", " 07911000000", "+14155550100", "+44 (0)7911-000000"}

FilterCities == {NULL, "London", "Glasgow"}

FilterRows ==
    {Row(201, p, c) : p \in FilterPhones, c \in FilterCities}

FilterLedgers ==
    {{[phone_e164 |-> p, source |-> "inbound_sms_stop", note |-> "STOP"] : p \in S} :
        S \in SUBSET {"+447911000000", "+14155550100"}}

InitFilter ==
    /\ dryRun = FALSE
    /\ reviewLinksMap \in LinkPools
    /\ pickups \in {<<row>> : row \in FilterRows}
    /\ optOuts \in FilterLedgers
    /\ smsLog = <<>>
    /\ jobRunSummary = <<>>
    /\ sends = <<>>
    /\ runs = [r \in RunIds |-> IdleRun]
    /\ InitQuiet

NextFilter ==
    \/ \E r \in RunIds : TriggerDailyJob(r)
    \/ \E r \in RunIds : DailyFetched(r)
    \/ \E r \in RunIds : TriggerHourlyJob(r, FALSE)
    \/ \E r \in RunIds : HourlyFetched(r)

SpecFilter == InitFilter /\ [][NextFilter]_vars

(***************************************************************************)
(* Properties.                                                             *)
(***************************************************************************)

\* The invocations of the sender that run r made for its fetched row k.
SendsOf(r, k) == {n \in DOMAIN sends : sends[n].run = r /\ sends[n].idx = k}

\* The send-log entries run r appended for its fetched row k with a status in S.
LogsOf(r, k, S) ==
    {n \in DOMAIN smsLog : smsLog[n].run = r /\ smsLog[n].idx = k /\ smsLog[n].status \in S}

\* C1: the daily job is idempotent per booking across runs that cover the
\* same window: no booking id has the transport invoked for it by two daily
\* runs (scheduled, startup or manual), whether the runs overlap or follow
\* one another.
C1_NoBookingSentByTwoDailyRuns ==
    \A m, n \in DOMAIN sends :
        (/\ sends[m].job = "daily" /\ sends[n].job = "daily"
         /\ sends[m].network /\ sends[n].network
         /\ sends[m].booking_id = sends[n].booking_id)
        => sends[m].run = sends[n].run

\* C2: at the moment a job run invokes the transport for phone p, p is not
\* in the opt-out ledger, under any interleaving with inbound STOP webhooks
\* and opt-out API calls.
C2_TransportNeverInvokedForOptedOut ==
    [][\A n \in DOMAIN sends' :
          (n \notin DOMAIN sends /\ sends'[n].network)
          => ~isOptedOut(optOuts, sends'[n].to)]_vars

\* C3: within one daily run the sender is invoked at most once per booking
\* id, also when the fetched list holds the same booking id twice, and the
\* sent count grows by one only.
C3_DuplicateRowSentOnce ==
    \A r \in RunIds :
        runs[r].job = "daily" =>
            /\ \A m, n \in DOMAIN sends :
                   (sends[m].run = r /\ sends[n].run = r
                    /\ sends[m].booking_id = sends[n].booking_id) => m = n
            /\ runs[r].stats.sent
                   <= Cardinality({runs[r].bookings[k].booking_id : k \in DOMAIN runs[r].bookings})

\* C4: for both jobs, when a run has returned, every fetched row that passed
\* all filter checks had the sender invoked for it exactly once, and exactly
\* one send-log entry with status sent or failed was appended for it (runs
\* started with the hourly dry-run flag, which bypass the sender by design,
\* are left aside).
C4_EligibleSentOnceLoggedOnce ==
    \A r \in RunIds :
        (runs[r].pc = "returned" /\ ~runs[r].isDryRun) =>
            \A k \in DOMAIN runs[r].verdicts :
                runs[r].verdicts[k] = "eligible" =>
                    /\ Cardinality(SendsOf(r, k)) = 1
                    /\ Cardinality(LogsOf(r, k, {"sent", "failed"})) = 1

CheckOrder == <<"no_phone", "invalid_phone", "non_uk", "opted_out", "no_review_link">>

JobChecks(job) ==
    IF job = "daily" THEN {CheckOrder[n] : n \in DOMAIN CheckOrder}
    ELSE {"invalid_phone", "non_uk", "opted_out"}

\* Whether a row fails one check, taken by itself.
FailsCheck(check, booking, ledger, links) ==
    LET phone == booking.phone_number
        e164  == normalizePhone(phone)
    IN  CASE check = "no_phone" -> phone \in {NULL, ""}
          [] check = "invalid_phone" -> e164 = NULL
          [] check = "non_uk" ->
                 ~(\/ e164 # NULL /\ StartsWith(e164, "+44")
                   \/ phone \notin {NULL, ""} /\ StartsWith(Trim(phone), "07"))
          [] check = "opted_out" -> e164 # NULL /\ \E row \in ledger : row.phone_e164 = e164
          [] check = "no_review_link" ->
                 /\ ~(booking.city \notin {NULL, ""} /\ hasReviewLinks(links, booking.city))
                 /\ ~hasReviewLinks(links, "london")

\* The earliest check of the job that the row fails, or "eligible".
FirstFailingCheck(job, booking, ledger, links) ==
    LET failing == {n \in DOMAIN CheckOrder :
                       /\ CheckOrder[n] \in JobChecks(job)
                       /\ FailsCheck(CheckOrder[n], booking, ledger, links)}
    IN  IF failing = {} THEN "eligible"
        ELSE CheckOrder[CHOOSE n \in failing : \A m \in failing : n <= m]

\* C6: the filter checks are applied in the order no-phone, invalid-phone,
\* non-domestic, opted-out, no-review-link (the hourly job makes the three
\* middle ones), and a row is recorded under the earliest check it fails,
\* whatever later checks it fails too.
C6_FirstFailingCheckDecides ==
    \A r \in RunIds :
        \A k \in DOMAIN runs[r].verdicts :
            runs[r].verdicts[k] =
                FirstFailingCheck(runs[r].job, runs[r].bookings[k], optOuts, reviewLinksMap)

\* An opted-out non-UK number whose city has no link either, judged by a
\* daily and by an hourly run: both record it as non-domestic.
C6_Witness ==
    \E r, q \in RunIds :
        /\ runs[r].job = "daily" /\ runs[q].job = "hourly"
        /\ runs[r].verdicts = <<"non_uk">> /\ runs[q].verdicts = <<"non_uk">>
        /\ isOptedOut(optOuts, normalizePhone(runs[r].bookings[1].phone_number))
        /\ FailsCheck("no_review_link", runs[r].bookings[1], optOuts, reviewLinksMap)

\* C7: a transport failure never aborts a run: a run throws only when its
\* fetch failed, never after a send; every failed send is counted in
\* failed; and a run that returned has invoked the sender for every row it
\* found eligible (the hourly dry-run flag apart), whichever sends failed.
C7_SendFailureDoesNotAbort ==
    \A r \in RunIds :
        /\ runs[r].pc = "thrown" => \A n \in DOMAIN sends : sends[n].run # r
        /\ runs[r].pc # "idle" =>
               runs[r].stats.failed =
                   Cardinality({n \in DOMAIN sends : sends[n].run = r /\ sends[n].result = "failed"})
        /\ (runs[r].pc = "returned" /\ ~runs[r].isDryRun) =>
               \A k \in DOMAIN runs[r].bookings :
                   (k \in DOMAIN runs[r].verdicts /\ runs[r].verdicts[k] = "eligible")
                   => SendsOf(r, k) # {}

\* A run returned after the send for its first row failed and the sender was
\* still invoked for its second row.
C7_Witness ==
    \E r \in RunIds :
        /\ runs[r].pc = "returned"
        /\ \E m \in SendsOf(r, 1) : sends[m].result = "failed"
        /\ SendsOf(r, 2) # {}

\* Whether run r created a summary row.
HasSummary(r) == runs[r].jobRunId \in DOMAIN jobRunSummary

\* The summary row of run r, or NULL when the run created none.
SummaryOf(r) ==
    IF HasSummary(r) THEN jobRunSummary[runs[r].jobRunId] ELSE NULL

\* C8: every run, daily or hourly, has created its summary row (counts zero,
\* start timestamp set, end timestamp null) before it issues the
\* data-source query.
C8_SummaryCreatedBeforeFetch ==
    \A r \in RunIds :
        runs[r].pc = "fetching" =>
            /\ HasSummary(r)
            /\ SummaryOf(r).started_at # NULL /\ SummaryOf(r).finished_at = NULL
            /\ SummaryOf(r).fetched_count = 0 /\ SummaryOf(r).sent_count = 0
            /\ SummaryOf(r).skipped_count = 0 /\ SummaryOf(r).failed_count = 0

\* C9: when the data-source query of a run fails, the failure is rethrown,
\* the run's summary has a non-null end timestamp and the error text, and
\* the run sent to no candidate.
C9_FetchFailureStampedAndRethrown ==
    \A r \in RunIds :
        runs[r].pc = "thrown" =>
            /\ HasSummary(r)
            /\ SummaryOf(r).finished_at # NULL /\ SummaryOf(r).error # NULL
            /\ \A n \in DOMAIN sends : sends[n].run # r

\* C10: when a run has returned (also with zero fetched rows), its summary
\* row has a non-null end timestamp, a null error, and the sent, skipped and
\* failed counts the run returned.
C10_FinishedSummaryHoldsReturnedCounts ==
    \A r \in RunIds :
        runs[r].pc = "returned" =>
            LET st == runs[r].stats
                skipped == IF runs[r].job = "daily"
                           THEN st.skippedNoPhone + st.skippedInvalidPhone + st.skippedNonUK
                                + st.skippedOptedOut + st.skippedNoReviewLink
                           ELSE st.skippedInvalidPhone + st.skippedNonUK + st.skippedOptedOut
            IN  /\ HasSummary(r)
                /\ SummaryOf(r).finished_at # NULL /\ SummaryOf(r).error = NULL
                /\ SummaryOf(r).sent_count = st.sent
                /\ SummaryOf(r).skipped_count = skipped
                /\ SummaryOf(r).failed_count = st.failed

\* C11: after the fetch step of an hourly run the stored summary row of the
\* run records the fetched count: fetched_count equals the number of rows
\* the query returned, and still does when the run has finished.
C11_FetchedCountStored ==
    \A r \in RunIds :
        (runs[r].job = "hourly" /\ runs[r].pc \in {"sending", "delaying", "returned"}) =>
            /\ HasSummary(r)
            /\ SummaryOf(r).fetched_count = Len(runs[r].bookings)

\* C12: in dry-run mode (DRY_RUN, or the dry-run flag of the hourly run) a
\* run that has returned made no TextMagic request, the sender was invoked
\* for every eligible row and returned its placeholder id, every eligible
\* row is counted as sent, and the send log holds one 'sent' entry for it.
C12_DryRunSendsNothingLogsSent ==
    \A r \in RunIds :
        (runs[r].pc = "returned" /\ (dryRun \/ runs[r].isDryRun)) =>
            /\ \A n \in DOMAIN sends : sends[n].run = r => ~sends[n].network
            /\ runs[r].stats.sent =
                   Cardinality({k \in DOMAIN runs[r].verdicts : runs[r].verdicts[k] = "eligible"})
            /\ \A k \in DOMAIN runs[r].verdicts :
                   runs[r].verdicts[k] = "eligible" =>
                       /\ \E n \in SendsOf(r, k) : sends[n].result = "ok"
                       /\ Cardinality(LogsOf(r, k, {"sent"})) = 1

\* The send-log entries of run r, in insertion order: booking id, phone, status.
AuditTrail(r) ==
    LET ofRun(e) == e.run = r
        own == SelectSeq(smsLog, ofRun)
    IN  [n \in DOMAIN own |->
            [booking_id |-> own[n].booking_id, phone |-> own[n].phone, status |-> own[n].status]]

\* The counts in the summary row of run r (no row: has is FALSE).
SummaryCounts(r) ==
    IF HasSummary(r)
    THEN [has |-> TRUE, sent |-> SummaryOf(r).sent_count, skipped |-> SummaryOf(r).skipped_count,
          failed |-> SummaryOf(r).failed_count]
    ELSE [has |-> FALSE, sent |-> 0, skipped |-> 0, failed |-> 0]

\* Run r has returned and none of its sends failed.
ReturnedClean(r) == runs[r].pc = "returned" /\ runs[r].stats.failed = 0

\* The trail a run over these rows leaves, from the rows, the ledger and the
\* pool alone: nothing for the daily job, one entry per row for the hourly.
TrailOf(job, bookings, ledger, links) ==
    IF job = "daily" THEN <<>>
    ELSE [k \in DOMAIN bookings |->
            LET reason == FirstFailingCheck(job, bookings[k], ledger, links)
                phone  == bookings[k].phone_number
            IN  [booking_id |-> bookings[k].booking_id,
                 phone |-> IF reason = "invalid_phone"
                           THEN (IF phone \in {NULL, ""} THEN "unknown" ELSE phone)
                           ELSE normalizePhone(phone),
                 status |-> IF reason = "eligible" THEN "sent" ELSE "skipped_" \o reason]]

InFlight(r) == {n \in DOMAIN sends : sends[n].run = r /\ sends[n].result = "pending"}

\* C14: sends of one run are strictly sequential and in fetch order: at most
\* one TextMagic request of a run is in flight at any time; when a run
\* starts the call for a row, every earlier call of the run has returned or
\* failed and was made for an earlier row of the fetched list, and, if the
\* previous call was a successful TextMagic request, the run was waiting in
\* the configured delay just before.
C14_SendsSequentialInFetchOrder ==
    /\ [](\A r \in RunIds : Cardinality(InFlight(r)) <= 1)
    /\ [][\A n \in DOMAIN sends' \ DOMAIN sends :
             \A m \in DOMAIN sends :
                 sends[m].run = sends'[n].run =>
                     /\ sends'[m].result # "pending"
                     /\ sends[m].idx < sends'[n].idx
                     /\ (sends'[m].network /\ sends'[m].result = "ok"
                         /\ \A l \in DOMAIN sends : (l > m => sends[l].run # sends[m].run))
                        => runs[sends[m].run].pc = "delaying"]_vars

\* A live run has its second TextMagic request in flight after its first
\* one succeeded.
C14_Witness ==
    \E r \in RunIds :
        /\ \E m \in SendsOf(r, 1) : sends[m].network /\ sends[m].result = "ok"
        /\ \E n \in SendsOf(r, 2) : sends[n].network /\ sends[n].result = "pending"

\* The URLs the pool holds for a city as a row writes it (none for no city).
PoolOf(links, city) ==
    IF city \in {NULL, ""} THEN <<>>
    ELSE LET key == Trim(ToLowerCase(city))
         IN  IF key \in DOMAIN links THEN links[key] ELSE <<>>

\* The elements of a sequence.
Range(q) == {q[n] : n \in DOMAIN q}

\* C15: review-link fallback of the daily job, for a row that passed the
\* phone and opt-out checks: when its city has no links (or is null) and
\* 'london' has, the row is eligible with a London URL and flagged as
\* using the fallback; when neither has a link it is counted as
\* skippedNoReviewLink and the sender is never invoked for it; when its own
\* city has links it gets one of them and is not flagged.
C15_LinkFallback ==
    \A r \in RunIds :
        \A k \in DOMAIN runs[r].verdicts :
            (runs[r].job = "daily" /\ runs[r].verdicts[k] \in {"eligible", "no_review_link"}) =>
                LET booking == runs[r].bookings[k]
                    own     == PoolOf(reviewLinksMap, booking.city)
                    london  == PoolOf(reviewLinksMap, "london")
                    entries == {n \in DOMAIN runs[r].eligibleBookings :
                                   runs[r].eligibleBookings[n].idx = k}
                    flags   == {DailyVerdict(booking, optOuts, reviewLinksMap, pick).usedLondonFallback :
                                   pick \in 1..MaxLinks}
                IN  IF own # <<>>
                    THEN /\ runs[r].verdicts[k] = "eligible"
                         /\ Cardinality(entries) = 1
                         /\ \A n \in entries : runs[r].eligibleBookings[n].reviewUrl \in Range(own)
                         /\ flags = {FALSE}
                    ELSE IF london # <<>>
                    THEN /\ runs[r].verdicts[k] = "eligible"
                         /\ Cardinality(entries) = 1
                         /\ \A n \in entries : runs[r].eligibleBookings[n].reviewUrl \in Range(london)
                         /\ flags = {TRUE}
                    ELSE /\ runs[r].verdicts[k] = "no_review_link"
                         /\ entries = {}
                         /\ SendsOf(r, k) = {}
                         /\ runs[r].stats.skippedNoReviewLink >= 1
                         /\ flags = {FALSE}

\* A daily run has returned after sending a Leeds row, for which the pool
\* (London and Glasgow) has no link, with the second London URL.
C15_Witness ==
    \E r \in RunIds :
        /\ runs[r].pc = "returned" /\ runs[r].job = "daily"
        /\ runs[r].bookings[1].city = "Leeds"
        /\ "glasgow" \in DOMAIN reviewLinksMap
        /\ Len(runs[r].eligibleBookings) = 1
        /\ runs[r].eligibleBookings[1].reviewUrl = "https://g.page/r/london-2"
        /\ SendsOf(r, 1) # {}

\* The phones of the ledger, in E.164 form.
LedgerE164 == {"+447911000000", "+14155550100"}

\* A step leaves the membership of every phone but p as it was.
OthersKept(p) ==
    \A q \in LedgerE164 \ {p} : isOptedOut(optOuts', q) <=> isOptedOut(optOuts, q)

\* C16: opt-out ledger round trip: after an add for phone p, isOptedOut(p)
\* is true; after a remove for p it is false; the remove returns true exactly
\* when a record for p existed before it; and neither changes the
\* membership of any other phone.
C16_LedgerRoundTrip ==
    [][\A phone \in LedgerPhones :
          LET p == normalizePhone(phone) IN
          p # NULL =>
              /\ (\E source \in LedgerSources, note \in LedgerNotes :
                      ApiAddOptOut(phone, source, note))
                 => (isOptedOut(optOuts', p) /\ OthersKept(p))
              /\ ApiRemoveOptOut(phone)
                 => /\ ~isOptedOut(optOuts', p)
                    /\ removeOptOutChanged(optOuts, p) <=> isOptedOut(optOuts, p)
                    /\ OthersKept(p)
              /\ \A source \in LedgerSources, note \in LedgerNotes :
                    LET added == addOptOut(optOuts, p, source, note)
                    IN  /\ isOptedOut(added, p)
                        /\ ~isOptedOut(removeOptOut(added, p), p)
                        /\ removeOptOutChanged(added, p)
                        /\ ~removeOptOutChanged(removeOptOut(added, p), p)]_vars

\* The phone the ledger started with has been removed, and another phone
\* has been added through the API.
C16_Witness ==
    /\ ~isOptedOut(optOuts, "+14155550100")
    /\ \E row \in optOuts : row.phone_e164 = "+447911000000" /\ row.source = "dashboard"

\* The rows the ledger holds for phone p.
RowsOf(ledger, p) == {row \in ledger : row.phone_e164 = p}

\* C17: after any sequence of adds and removes the ledger holds at most one
\* record per phone, and after an add for a phone (inbound STOP or the
\* API) the record of the phone carries the source and the note of that
\* add: a repeated add overwrites, it neither fails nor duplicates.
C17_OneRecordPerPhoneLatestWins ==
    /\ [](\A p \in LedgerE164 : Cardinality(RowsOf(optOuts, p)) <= 1)
    /\ [][\A phone \in LedgerPhones :
             LET p == normalizePhone(phone) IN
             p # NULL =>
                 /\ \A source \in LedgerSources, note \in LedgerNotes :
                        ApiAddOptOut(phone, source, note) =>
                            RowsOf(optOuts', p) =
                                {[phone_e164 |-> p,
                                  source |-> IF source = "" THEN "manual" ELSE source,
                                  note |-> IF note = "" THEN NULL ELSE note]}
                 /\ \A text \in LedgerTexts :
                        (InboundSMS(text, phone)
                         /\ handleInboundSMSAction(optOuts, text, phone) = "opted_out") =>
                            RowsOf(optOuts', p) =
                                {[phone_e164 |-> p, source |-> "inbound_sms_stop",
                                  note |-> text]}]_vars

\* The record the ledger started with for a phone has been overwritten by
\* an inbound STOP of that phone, and is still the only one of the phone.
C17_Witness ==
    /\ RowsOf(optOuts, "+14155550100") =
           {[phone_e164 |-> "+14155550100", source |-> "inbound_sms_stop", note |-> "CANCEL"]}
    /\ RowsOf(optOuts, "+447911000000") # {}

\* C18: an inbound message from an opted-out phone whose text is START, YES
\* or UNSTOP (any letter case, surrounding whitespace ignored) deletes the
\* phone's record and the handler reports 'opted_in'.
C18_InboundOptInKeywordRemoves ==
    [][\A text \in LedgerTexts, from \in LedgerPhones :
          (/\ InboundSMS(text, from)
           /\ normalizePhone(from) # NULL
           /\ isOptedOut(optOuts, normalizePhone(from))
           /\ ToUpperCase(Trim(text)) \in OPT_IN_KEYWORDS)
          => /\ ~isOptedOut(optOuts', normalizePhone(from))
             /\ handleInboundSMSAction(optOuts, text, from) = "opted_in"]_vars

\* C19: an inbound message from a phone that normalizes, whose text is STOP,
\* STOPALL, UNSUBSCRIBE, CANCEL, END or QUIT (any letter case), leaves a
\* record for the phone with source 'inbound_sms_stop' and the handler
\* reports 'opted_out', opted out before or not; a text containing no stop
\* and no opt-in keyword leaves the ledger as it was and reports 'none'.
C19_InboundStopKeywordAdds ==
    \A text \in LedgerTexts, from \in LedgerPhones :
        LET p == normalizePhone(from)
            upperText == ToUpperCase(Trim(text))
            after == handleInboundSMS(optOuts, text, from)
            action == handleInboundSMSAction(optOuts, text, from)
        IN  p # NULL =>
                /\ upperText \in STOP_KEYWORDS =>
                       /\ \E row \in after :
                              row.phone_e164 = p /\ row.source = "inbound_sms_stop"
                       /\ action = "opted_out"
                /\ (\A keyword \in STOP_KEYWORDS \cup OPT_IN_KEYWORDS :
                        ~Includes(upperText, keyword)) =>
                       /\ after = optOuts
                       /\ action = "none"

\* Both phones have opted out by an inbound stop keyword in lower or mixed
\* case, one of them being opted out before.
C19_Witness ==
    /\ \E row \in optOuts : row.phone_e164 = "+447911000000" /\ row.note = " stop "
    /\ \E row \in optOuts : row.phone_e164 = "+14155550100" /\ row.note = "End"

\* C20: the manual single-send endpoint /api/test-sms never invokes the
\* transport for a phone that is in the opt-out ledger at the time of the
\* request.
C20_TestSmsNeverToOptedOut ==
    [][\A n \in DOMAIN sends' \ DOMAIN sends :
          (sends'[n].job = "test" /\ sends'[n].network)
          => ~isOptedOut(optOuts, sends'[n].to)]_vars

(***************************************************************************)
(* The two queries over bookings that differ in pickup time, cancellation, *)
(* payment, storage type and phone.                                        *)
(***************************************************************************)

FetchPhones == {NULL, "", "+447911123456"}

FetchRows ==
    {[booking_id |-> 401, phone_number |-> p, city |-> "London", pickup |-> t,
      cancelled |-> c, paid |-> d, storage_type |-> s] :
        p \in FetchPhones, t \in PickupTimes, c \in BOOLEAN, d \in BOOLEAN,
        s \in {"hivebox_locker_bank", "stashpoint"}}

InitFetch ==
    /\ dryRun = TRUE
    /\ reviewLinksMap = [c \in {"london"} |-> <<"https://g.page/r/london-1">>]
    /\ pickups \in {<<Row(400, "+447911000000", "London"), row>> : row \in FetchRows}
    /\ optOuts = {}
    /\ smsLog = <<>>
    /\ jobRunSummary = <<>>
    /\ sends = <<>>
    /\ runs = [r \in RunIds |-> IdleRun]
    /\ InitQuiet

NextFetch ==
    \/ \E r \in RunIds : TriggerDailyJob(r)
    \/ \E r \in RunIds : DailyFetched(r)
    \/ \E r \in RunIds : TriggerHourlyJob(r, FALSE)
    \/ \E r \in RunIds : HourlyFetched(r)

SpecFetch == InitFetch /\ [][NextFetch]_vars

\* C21: the candidates either job fetched all have their pickup in the
\* run's window, are not cancelled, are paid and have a non-empty phone: no
\* cancelled or unpaid booking reaches the filtering step of either job.
C21_FetchedInWindowLivePaidWithPhone ==
    \A r \in RunIds : \A k \in DOMAIN runs[r].bookings :
        LET booking == runs[r].bookings[k] IN
        /\ IF runs[r].job = "daily" THEN PickedUpYesterday(booking.pickup)
           ELSE PickedUpPreviousHour(booking.pickup)
        /\ booking.cancelled = FALSE
        /\ booking.paid = TRUE
        /\ booking.phone_number \notin {NULL, ""}

(***************************************************************************)
(* The daily job over three candidates: a UK number in London, a national  *)
(* UK number in Glasgow and a US number, fetched in any order; London has  *)
(* two links, Glasgow none; nobody has opted out; every TextMagic request  *)
(* succeeds.                                                               *)
(***************************************************************************)

ScenarioRows ==
    { Row(501, "+447911123456", "London"),
      Row(502, "07911000000", "Glasgow"),
      Row(503, "+14155550100", "London") }

ScenarioPool ==
    [c \in {"london"} |-> <<"https://g.page/r/london-1", "https://g.page/r/london-2">>]

InitScenario ==
    /\ dryRun \in BOOLEAN
    /\ reviewLinksMap = ScenarioPool
    /\ pickups \in {<<a, b, c>> : a, b, c \in ScenarioRows}
    /\ \A row \in ScenarioRows : \E k \in DOMAIN pickups : pickups[k] = row
    /\ optOuts = {}
    /\ smsLog = <<>>
    /\ jobRunSummary = <<>>
    /\ sends = <<>>
    /\ runs = [r \in RunIds |-> IdleRun]
    /\ InitQuiet

NextScenario ==
    \/ TriggerDailyJob(1)
    \/ DailyFetched(1)
    \/ SendSucceeded(1)
    \/ DelayElapsed(1)

SpecScenario == InitScenario /\ [][NextScenario]_vars

\* C22: in the three-candidate scenario the daily job sends to
\* +447911123456 with a London link of its own city, sends to 07911000000
\* (Glasgow) with a London link as fallback, skips +14155550100 as non-UK
\* without invoking the sender, and returns found=3, sent=2, skippedNonUK=1,
\* failed=0 and 0 for every other skip count.
C22_ThreeCandidateScenario ==
    \A r \in RunIds :
        (runs[r].job = "daily" /\ runs[r].pc = "returned") =>
            /\ runs[r].stats = [ZeroJobStats EXCEPT !.found = 3, !.eligible = 2,
                                                    !.sent = 2, !.skippedNonUK = 1]
            /\ \A k \in DOMAIN runs[r].bookings :
                  LET booking == runs[r].bookings[k]
                      flags == {DailyVerdict(booking, optOuts, reviewLinksMap,
                                             pick).usedLondonFallback : pick \in 1..MaxLinks}
                      urls  == {e.reviewUrl : e \in {runs[r].eligibleBookings[n] :
                                   n \in {m \in DOMAIN runs[r].eligibleBookings :
                                             runs[r].eligibleBookings[m].idx = k}}}
                  IN  CASE booking.booking_id = 501 ->
                             /\ Cardinality(SendsOf(r, k)) = 1
                             /\ \A n \in SendsOf(r, k) :
                                   sends[n].to = "+447911123456" /\ sends[n].result = "ok"
                             /\ flags = {FALSE}
                             /\ urls \subseteq Range(ScenarioPool["london"]) /\ urls # {}
                        [] booking.booking_id = 502 ->
                             /\ Cardinality(SendsOf(r, k)) = 1
                             /\ \A n \in SendsOf(r, k) :
                                   sends[n].to = "+447911000000" /\ sends[n].result = "ok"
                             /\ flags = {TRUE}
                             /\ urls \subseteq Range(ScenarioPool["london"]) /\ urls # {}
                        [] booking.booking_id = 503 ->
                             /\ SendsOf(r, k) = {}
                             /\ runs[r].verdicts[k] = "non_uk"

C22_Witness ==
    /\ ~dryRun
    /\ runs[1].job = "daily" /\ runs[1].pc = "returned"
    /\ Len(runs[1].bookings) = 3
    /\ runs[1].bookings[1].booking_id = 503
    /\ Len(sends) = 2
    /\ \A n \in DOMAIN sends : sends[n].network /\ sends[n].result = "ok"

(***************************************************************************)
(* Message rendering (template.ts, renderTemplate).  A field map is a      *)
(* record of the seven fields of TemplateVariables; NULL is a field that   *)
(* was not supplied.                                                       *)
(***************************************************************************)

\* str.replace(new RegExp('\\{key\\}', 'g'), value) for a value without '$'
RECURSIVE ReplaceAll(_, _, _)
ReplaceAll(str, pattern, value) ==
    LET matches == {i \in 1..(Len(str) - Len(pattern) + 1) :
                       SubSeq(str, i, i + Len(pattern) - 1) = pattern}
    IN  IF matches = {} THEN str
        ELSE LET first == CHOOSE i \in matches : \A j \in matches : i <= j
             IN  SubSeq(str, 1, first - 1) \o value
                    \o ReplaceAll(SubSeq(str, first + Len(pattern), Len(str)), pattern, value)

\* x || ''
OrEmpty(x) == IF x = NULL THEN "" ELSE x

\* The keys of variableMap in the order Object.entries yields them.
VariableKeys ==
    <<"firstName", "lastName", "fullName", "stashpointName", "reviewUrl", "city", "bookingId">>

\* variableMap of renderTemplate
variableMap(v) ==
    [firstName      |-> OrEmpty(v.firstName),
     lastName       |-> OrEmpty(v.lastName),
     fullName       |-> IF OrEmpty(v.fullName) # "" THEN v.fullName
                        ELSE Trim(OrEmpty(v.firstName) \o " " \o OrEmpty(v.lastName)),
     stashpointName |-> OrEmpty(v.stashpointName),
     reviewUrl      |-> OrEmpty(v.reviewUrl),
     city           |-> OrEmpty(v.city),
     bookingId      |-> OrEmpty(v.bookingId)]

\* The loop of renderTemplate from key k on.
RECURSIVE RenderFrom(_, _, _)
RenderFrom(rendered, map, k) ==
    IF k > Len(VariableKeys) THEN rendered
    ELSE RenderFrom(ReplaceAll(rendered, "{" \o VariableKeys[k] \o "}", map[VariableKeys[k]]),
                    map, k + 1)

\* renderTemplate(template, vars)
renderTemplate(template, v) == RenderFrom(template, variableMap(v), 1)

\* The templates an operator saved, and the field maps of the calls.
RenderTemplates ==
    { "Thanks for using Stasher at {stashpointName} yesterday. Review? {reviewUrl} Reply STOP to opt out.",
      "Hi {firstName} {lastName}, {fullName} of {city}, booking {bookingId}",
      "Hi {firstName}, {firstName}!",
      "Hi {firstName}, use code {promoCode} at {stashpointName}",
      "No fields here" }

RenderVars ==
    [firstName : {NULL, "Ada"}, lastName : {NULL, "Lee"}, fullName : {NULL, "", "Dr Lee"},
     stashpointName : {NULL, "Kiosk"}, reviewUrl : {NULL, "https://g.page/r/london-1"},
     city : {"London"}, bookingId : {NULL, "42"}]

InitRender ==
    /\ dryRun = FALSE
    /\ reviewLinksMap = [c \in {} |-> <<>>]
    /\ pickups = <<>>
    /\ optOuts = {}
    /\ smsLog = <<>>
    /\ jobRunSummary = <<>>
    /\ sends = <<>>
    /\ runs = [r \in RunIds |-> IdleRun]
    /\ logFaults = <<>>
    /\ preview = IdlePreview
    /\ \E template \in RenderTemplates, v \in RenderVars :
          render = [pc |-> "called", template |-> template, vars |-> v, rendered |-> ""]
    /\ csvFile = [state |-> "missing", records |-> <<>>]
    /\ lookup = NoLookup
    /\ clock = StartClock
    /\ smsCall = IdleSmsCall

\* renderTemplate runs to its return.
RenderTemplate ==
    /\ render.pc = "called"
    /\ render' = [render EXCEPT !.pc = "returned",
                                !.rendered = renderTemplate(render.template, render.vars)]
    /\ UNCHANGED <<dryRun, reviewLinksMap, pickups, optOuts, smsLog, jobRunSummary, sends,
                   runs, logFaults, preview, csvFile, lookup, clock, smsCall>>

NextRender == RenderTemplate

SpecRender == InitRender /\ [][NextRender]_vars

\* A '{name}' with name made of letters stands at position i of str.
PlaceholderAt(str, i) ==
    /\ SubSeq(str, i, i) = "{"
    /\ \E j \in (i + 2)..Len(str) :
          /\ SubSeq(str, j, j) = "}"
          /\ \A m \in (i + 1)..(j - 1) :
                \E n \in 1..Len(LowerLetters) :
                    SubSeq(str, m, m) \in {SubSeq(LowerLetters, n, n), SubSeq(UpperLetters, n, n)}

\* C23: rendering leaves no placeholder in its output: every '{name}' of
\* the template, whether the renderer knows the field or not and whether a
\* value was supplied or not, is replaced by the value or the empty string.
C23_NoPlaceholderLeft ==
    render.pc = "returned" =>
        \A i \in 1..Len(render.rendered) : ~PlaceholderAt(render.rendered, i)

\* The phone is null, undefined, empty or only whitespace.
IsBlank(phone) == phone = NULL \/ Trim(phone) = ""

\* C24: the normalizer answers NULL for every null, empty or
\* whitespace-only input, and for every input it answers an E.164 string or
\* NULL, never with an exception; a run over a dirty row goes on to its
\* return with the row skipped as invalid.
C24_NormalizerNeverThrows ==
    /\ \A phone \in FilterPhones \cup {""} :
          /\ normalizePhone(phone) # THROWN
          /\ IsBlank(phone) => normalizePhone(phone) = NULL
    /\ \A r \in RunIds :
          /\ runs[r].pc # "thrown"
          /\ \A k \in DOMAIN runs[r].verdicts :
                LET phone == runs[r].bookings[k].phone_number IN
                (IsBlank(phone) \/ RemoveSpaces(phone) \in RaisesParseError)
                    => /\ runs[r].verdicts[k] \in {"no_phone", "invalid_phone"}
                       /\ SendsOf(r, k) = {}

C24_Witness ==
    \E r \in RunIds :
        /\ runs[r].pc = "returned"
        /\ Len(runs[r].bookings) = 1
        /\ RemoveSpaces(runs[r].bookings[1].phone_number) \in RaisesParseError
        /\ runs[r].verdicts = <<"invalid_phone">>

(***************************************************************************)
(* Preview endpoints: GET /api/hivebox/preview (hiveboxReminders/routes.ts)*)
(* and GET /api/yesterday-bookings (webhook.ts).                           *)
(***************************************************************************)

\* LIMIT of the query of GET /api/yesterday-bookings
PreviewRowLimit == 1000

\* The limit both previews pass to getAllOptOuts
PreviewOptOutLimit == 10000

\* ORDER BY b.id
RECURSIVE OrderById(_)
OrderById(rows) ==
    IF rows = <<>> THEN <<>>
    ELSE LET least == CHOOSE i \in DOMAIN rows :
                          \A j \in DOMAIN rows :
                              \/ rows[i].booking_id < rows[j].booking_id
                              \/ rows[i].booking_id = rows[j].booking_id /\ i <= j
         IN  <<rows[least]>> \o
                 OrderById(SubSeq(rows, 1, least - 1) \o SubSeq(rows, least + 1, Len(rows)))

\* The query of GET /api/yesterday-bookings
getYesterdayBookings(table) ==
    LET Selected(b) == /\ PickedUpYesterday(b.pickup)
                       /\ b.phone_number # NULL
                       /\ b.phone_number # ""
        ordered == OrderById(SelectSeq(table, Selected))
    IN  IF Len(ordered) > PreviewRowLimit THEN SubSeq(ordered, 1, PreviewRowLimit)
        ELSE ordered

\* getAllOptOuts(limit): SELECT * FROM sms_opt_out ORDER BY created_at DESC LIMIT ?
getAllOptOuts(ledger, limit) ==
    IF Cardinality(ledger) <= limit THEN ledger
    ELSE CHOOSE rows \in SUBSET ledger : Cardinality(rows) = limit

\* The phones of the opt-out set a preview builds
optOutSet(ledger) == {o.phone_e164 : o \in getAllOptOuts(ledger, PreviewOptOutLimit)}

\* One entry of the response of GET /api/hivebox/preview
HiveboxPreviewEntry(booking, ledger) ==
    LET phoneE164 == normalizePhone(booking.phone_number)
        status == IF phoneE164 = NULL THEN "skipped_invalid_phone"
                  ELSE IF ~isUKNumber(phoneE164, booking.phone_number) THEN "skipped_non_uk"
                  ELSE IF phoneE164 \in optOutSet(ledger) THEN "skipped_opted_out"
                  ELSE "eligible"
    IN  [booking |-> booking, phone_e164 |-> phoneE164, status |-> status,
         is_opted_out |-> (phoneE164 # NULL /\ phoneE164 \in optOutSet(ledger))]

\* One entry of the response of GET /api/yesterday-bookings
YesterdayBookingsEntry(row, ledger, links) ==
    LET phoneE164 == normalizePhone(row.phone_number)
        city == IF row.city = NULL THEN "" ELSE row.city
        cityHasLinks == hasReviewLinks(links, city)
        londonHasLinks == hasReviewLinks(links, "london")
    IN  [booking |-> row,
         is_opted_out |-> (phoneE164 # NULL /\ phoneE164 \in optOutSet(ledger)),
         has_review_link |-> (cityHasLinks \/ londonHasLinks),
         city_has_links |-> cityHasLinks,
         will_use_london_fallback |-> (~cityHasLinks /\ londonHasLinks)]

\* A preview request arrives: the handler acquires a client and issues its query.
PreviewRequested(kind) ==
    /\ preview.pc = "idle"
    /\ preview' = [pc |-> "fetching", kind |-> kind, client |-> "held", body |-> <<>>]
    /\ UNCHANGED <<dryRun, reviewLinksMap, pickups, optOuts, smsLog, jobRunSummary, sends,
                   runs, logFaults, render, csvFile, lookup, clock, smsCall>>

\* PreviewFetched with a send-log entry written for every row of the response.
PreviewFetchedLogging ==
    /\ preview.pc = "fetching"
    /\ LET rows == IF preview.kind = "hourly" THEN getHiveboxPreviousHourPickups(pickups)
                   ELSE getYesterdayBookings(pickups)
       IN  /\ preview' = Finally([preview EXCEPT !.pc = "returned",
                  !.body = [k \in DOMAIN rows |-> HiveboxPreviewEntry(rows[k], optOuts)]])
           /\ smsLog' = smsLog \o [k \in DOMAIN rows |->
                  [feature |-> FEATURE_NAME, booking_id |-> rows[k].booking_id,
                   phone |-> rows[k].phone_number, status |-> "preview", error |-> NULL,
                   run |-> 0, idx |-> k]]
    /\ UNCHANGED <<dryRun, reviewLinksMap, pickups, optOuts, jobRunSummary, sends,
                   runs, logFaults, render, csvFile, lookup, clock, smsCall>>

\* The query of the preview returned: the handler enriches the rows, answers
\* with them and releases the client.
PreviewFetched ==
    /\ preview.pc = "fetching"
    /\ LET rows == IF preview.kind = "hourly" THEN getHiveboxPreviousHourPickups(pickups)
                   ELSE getYesterdayBookings(pickups)
       IN  preview' = Finally([preview EXCEPT !.pc = "returned",
               !.body = [k \in DOMAIN rows |->
                            IF preview.kind = "hourly"
                            THEN HiveboxPreviewEntry(rows[k], optOuts)
                            ELSE YesterdayBookingsEntry(rows[k], optOuts, reviewLinksMap)]])
    /\ UNCHANGED <<dryRun, reviewLinksMap, pickups, optOuts, smsLog, jobRunSummary, sends,
                   runs, logFaults, render, csvFile, lookup, clock, smsCall>>

\* The query of the preview threw: the client is released and the handler
\* answers with status 500.
PreviewFetchFailed ==
    /\ preview.pc = "fetching"
    /\ preview' = Finally([preview EXCEPT !.pc = "thrown"])
    /\ UNCHANGED <<dryRun, reviewLinksMap, pickups, optOuts, smsLog, jobRunSummary, sends,
                   runs, logFaults, render, csvFile, lookup, clock, smsCall>>

(***************************************************************************)
(* The jobs by every trigger and a preview request over one row, with the  *)
(* ledger as earlier requests left it.                                     *)
(***************************************************************************)

PreviewPhones == {"  ", "+447911123456", " 07911000000", "+14155550100"}

PreviewRows == {Row(601, p, c) : p \in PreviewPhones, c \in FilterCities}

InitPreview ==
    /\ dryRun = FALSE
    /\ reviewLinksMap \in LinkPools
    /\ pickups \in {<<row>> : row \in PreviewRows}
    /\ optOuts \in FilterLedgers
    /\ smsLog = <<>>
    /\ jobRunSummary = <<>>
    /\ sends = <<>>
    /\ runs = [r \in RunIds |-> IdleRun]
    /\ logFaults \in {<<>>, <<TRUE>>}
    /\ preview = IdlePreview
    /\ render = IdleRender
    /\ csvFile = CHOOSE file \in CsvFiles :
                     file.state # "malformed" /\ loadReviewLinks(file) = reviewLinksMap
    /\ lookup = NoLookup
    /\ clock = StartClock
    /\ smsCall = IdleSmsCall

NextPreview ==
    \/ \E r \in RunIds : TriggerDailyJob(r)
    \/ \E r \in RunIds : DailyFetched(r)
    \/ \E r \in RunIds : DailyFetchFailed(r)
    \/ \E r \in RunIds, isDryRun \in BOOLEAN : TriggerHourlyJob(r, isDryRun)
    \/ \E r \in RunIds : HourlyFetched(r)
    \/ \E r \in RunIds : HourlyFetchFailed(r)
    \/ \E r \in RunIds : SendSucceeded(r)
    \/ \E r \in RunIds : DelayElapsed(r)
    \/ \E r \in RunIds : SendFailed(r)
    \/ \E kind \in {"hourly", "daily"} : PreviewRequested(kind)
    \/ PreviewFetched
    \/ PreviewFetchFailed

SpecPreview == InitPreview /\ [][NextPreview]_vars

\* C25: the connection a trigger acquired for a run (of either job, or of a
\* preview) is held while the run is under way and released when the run
\* ends, by return or by throw; it is released once, from held, and stays
\* released: after completed runs no connection is held.
C25_ClientReleasedOnEveryExit ==
    /\ [](/\ \A r \in RunIds :
               /\ runs[r].pc = "idle" => runs[r].client = "none"
               /\ runs[r].pc \in {"fetching", "sending", "delaying"} => runs[r].client = "held"
               /\ runs[r].pc \in {"returned", "thrown"} => runs[r].client = "released"
          /\ preview.pc = "idle" => preview.client = "none"
          /\ preview.pc = "fetching" => preview.client = "held"
          /\ preview.pc \in {"returned", "thrown"} => preview.client = "released")
    /\ [][/\ \A r \in RunIds :
               /\ (runs[r].client # "released" /\ runs'[r].client = "released")
                     => runs[r].client = "held"
               /\ runs[r].client = "released" => runs'[r].client = "released"
          /\ (preview.client # "released" /\ preview'.client = "released")
                => preview.client = "held"
          /\ preview.client = "released" => preview'.client = "released"]_vars

C25_Witness ==
    /\ runs[1].pc = "thrown" /\ runs[1].job = "hourly" /\ runs[1].client = "released"
    /\ Len(runs[1].bookings) = 1
    /\ runs[2].pc = "returned" /\ runs[2].job = "daily" /\ runs[2].client = "released"
    /\ preview.pc = "thrown" /\ preview.client = "released"

\* C26: a preview fetches and classifies only: no step of the hourly
\* preview or of the daily preview invokes the sender, and each leaves the
\* opt-out ledger, the send log and the job run summaries as they were.
C26_PreviewWritesNothing ==
    [][preview' # preview =>
          /\ sends' = sends
          /\ optOuts' = optOuts
          /\ smsLog' = smsLog
          /\ jobRunSummary' = jobRunSummary]_vars

C26_Witness ==
    /\ preview.pc = "returned" /\ preview.kind = "daily"
    /\ Len(preview.body) = 1
    /\ preview.body[1].has_review_link /\ ~preview.body[1].is_opted_out
    /\ sends = <<>> /\ smsLog = <<>> /\ jobRunSummary = <<>>

\* C27: the send log is append-only: a logging operation adds exactly one
\* entry after the entries there are, and no step of the system changes or
\* removes an entry: the log before a step is a prefix of the log after it.
C27_SendLogAppendOnly ==
    /\ [](\A status \in {"sent", "failed", "skipped_opted_out"} :
             LET after == logSMS(smsLog, 1, 1, Row(101, "+447911123456", "London"),
                                 "+447911123456", status, NULL)
             IN  /\ Len(after) = Len(smsLog) + 1
                 /\ SubSeq(after, 1, Len(smsLog)) = smsLog)
    /\ [][/\ Len(smsLog') >= Len(smsLog)
          /\ SubSeq(smsLog', 1, Len(smsLog)) = smsLog]_vars

C27_Witness ==
    /\ Len(smsLog) = 4
    /\ smsLog[1].run = 1 /\ smsLog[2].run = 2 /\ smsLog[3].run = 1 /\ smsLog[4].run = 2
    /\ \E n \in DOMAIN smsLog : smsLog[n].status = "failed"
    /\ \E n \in DOMAIN smsLog : smsLog[n].status = "sent"

(***************************************************************************)
(* The hourly job on a storage that refuses some inserts into the send     *)
(* log; every TextMagic request succeeds.                                  *)
(***************************************************************************)

\* Most inserts whose outcome a behaviour fixes in advance.
MaxLogFaults == 2

StorageRows == {Row(701, "+447911123456", "London"), Row(702, "+14155550100", "London")}

InitStorage ==
    /\ dryRun \in BOOLEAN
    /\ reviewLinksMap = [c \in {} |-> <<>>]
    /\ pickups \in {<<a, b>> : a, b \in StorageRows}
    /\ optOuts = {}
    /\ smsLog = <<>>
    /\ jobRunSummary = <<>>
    /\ sends = <<>>
    /\ runs = [r \in RunIds |-> IdleRun]
    /\ logFaults \in SeqsUpTo(BOOLEAN, MaxLogFaults)
    /\ preview = IdlePreview
    /\ render = IdleRender
    /\ csvFile = CHOOSE file \in CsvFiles :
                     file.state # "malformed" /\ loadReviewLinks(file) = reviewLinksMap
    /\ lookup = NoLookup
    /\ clock = StartClock
    /\ smsCall = IdleSmsCall

NextStorage ==
    \/ \E r \in RunIds, isDryRun \in BOOLEAN : TriggerHourlyJob(r, isDryRun)
    \/ \E r \in RunIds : HourlyFetched(r)
    \/ \E r \in RunIds : HourlyFetchFailed(r)
    \/ \E r \in RunIds : SendSucceeded(r)
    \/ \E r \in RunIds : DelayElapsed(r)

SpecStorage == InitStorage /\ [][NextStorage]_vars

\* An insert into the send log threw during the step.
LogWriteFailed ==
    \E n \in 1..(Len(logFaults) - Len(logFaults')) : logFaults[n]

\* C28: a failed write of a send-log entry aborts the hourly run: in the
\* step in which the insert for a candidate throws (the 'sent' entry after
\* a successful send included) the run throws to its caller with the
\* summary stamped with the error, no later candidate is processed, and the
\* candidate is not counted or logged as failed.
C28_LogWriteFailureAbortsRun ==
    [][\A r \in RunIds :
          (runs'[r] # runs[r] /\ runs[r].pc # "idle" /\ LogWriteFailed) =>
              /\ runs'[r].pc = "thrown"
              /\ Len(runs'[r].verdicts) = runs'[r].i
              /\ jobRunSummary'[runs[r].jobRunId].error # NULL
              /\ jobRunSummary'[runs[r].jobRunId].finished_at # NULL
              /\ runs'[r].stats.failed = runs[r].stats.failed
              /\ \A n \in DOMAIN smsLog' :
                    (n > Len(smsLog) /\ smsLog'[n].run = r) => smsLog'[n].status # "failed"]_vars

\* C29: the hourly job looks a candidate up in the opt-out ledger in the
\* same step in which it hands the candidate to the sender: a phone that is
\* in the ledger when its turn comes, also one that was recorded while an
\* earlier candidate of the run was being sent or during the delay after
\* it, is logged as skipped_opted_out and gets no send in that run.
C29_HourlyChecksLedgerAtEachSend ==
    [][\A r \in RunIds :
          runs'[r].job = "hourly" =>
              \A k \in DOMAIN runs'[r].verdicts :
                  k \notin DOMAIN runs[r].verdicts =>
                      LET p == normalizePhone(runs'[r].bookings[k].phone_number) IN
                      (p # NULL /\ isUKNumber(p, runs'[r].bookings[k].phone_number)) =>
                          IF isOptedOut(optOuts, p)
                          THEN /\ runs'[r].verdicts[k] = "opted_out"
                               /\ SendsOf(r, k)' = {}
                               /\ \E n \in LogsOf(r, k, {"skipped_opted_out"})' : n > Len(smsLog)
                          ELSE runs'[r].verdicts[k] = "eligible"]_vars

\* A run sent to a phone and then skipped a second row with the same phone
\* as opted out: the opt-out arrived during the first send or its delay.
C29_Witness ==
    \E r \in RunIds :
        /\ runs[r].job = "hourly" /\ ~runs[r].isDryRun /\ ~dryRun
        /\ Len(runs[r].bookings) = 2
        /\ runs[r].bookings[1] = runs[r].bookings[2]
        /\ runs[r].verdicts = <<"eligible", "opted_out">>
        /\ \E n \in SendsOf(r, 1) : sends[n].result = "ok"
        /\ SendsOf(r, 2) = {}
        /\ LogsOf(r, 2, {"skipped_opted_out"}) # {}

\* The skip reason of the jobs that a preview status names.
ReasonOfStatus(status) ==
    CASE status = "skipped_invalid_phone" -> "invalid_phone"
      [] status = "skipped_non_uk"        -> "non_uk"
      [] status = "skipped_opted_out"     -> "opted_out"
      [] status = "eligible"              -> "eligible"

\* C30: a preview agrees with its job on the same candidates, ledger and
\* pool: a candidate the hourly preview reports as eligible, or the daily
\* preview reports as not opted out and with a review link, is one the
\* job's filter would send to; a candidate a preview reports as skipped
\* (hourly status; daily opted out, or without review link) is skipped by
\* the job for that reason.
C30_PreviewAgreesWithJob ==
    preview.pc = "returned" =>
        \A k \in DOMAIN preview.body :
            LET e == preview.body[k] IN
            IF preview.kind = "hourly"
            THEN HourlyVerdict(e.booking, optOuts).reason = ReasonOfStatus(e.status)
            ELSE \A pick \in 1..MaxLinks :
                    LET reason == DailyVerdict(e.booking, optOuts, reviewLinksMap, pick).reason
                    IN  /\ (~e.is_opted_out /\ e.has_review_link) => reason = "eligible"
                        /\ e.is_opted_out => reason = "opted_out"
                        /\ (~e.is_opted_out /\ ~e.has_review_link) => reason = "no_review_link"

\* The number counts as domestic: the normalized number starts with +44, or
\* the raw phone, trimmed, starts with 07.
Domestic(e164, raw) == StartsWith(e164, "+44") \/ StartsWith(Trim(raw), "07")

\* C31: a job run hands a candidate to the sender only if its normalized
\* number starts with '+44' or its raw phone, trimmed, starts with '07';
\* every other candidate whose phone normalizes is counted as non-UK and
\* gets no send.
C31_OnlyDomesticNumbersSent ==
    \A r \in RunIds :
        /\ \A k \in DOMAIN runs[r].bookings :
              LET raw == runs[r].bookings[k].phone_number
                  e164 == normalizePhone(raw)
              IN  /\ SendsOf(r, k) # {} => (e164 # NULL /\ Domestic(e164, raw))
                  /\ (k \in DOMAIN runs[r].verdicts /\ e164 # NULL /\ ~Domestic(e164, raw))
                        => /\ runs[r].verdicts[k] = "non_uk"
                           /\ SendsOf(r, k) = {}
        /\ runs[r].job # "none" =>
              runs[r].stats.skippedNonUK =
                  Cardinality({k \in DOMAIN runs[r].verdicts : runs[r].verdicts[k] = "non_uk"})

C31_Witness ==
    /\ runs[1].job = "daily" /\ runs[2].job = "hourly"
    /\ \A r \in {1, 2} :
          /\ Len(runs[r].bookings) = 1
          /\ runs[r].bookings[1].phone_number = "+14155550100"
          /\ runs[r].verdicts = <<"non_uk">>
          /\ runs[r].stats.skippedNonUK = 1
          /\ runs[r].pc = "returned"
    /\ sends = <<>>

(***************************************************************************)
(* The review-link pool under uploads of CSV files, and the lookups made   *)
(* on it.  REVIEW_LINKS_CSV is not set: the pool is read from the file the *)
(* upload writes.                                                          *)
(***************************************************************************)

\* getRandomReviewUrl(city) and getRandomReviewUrl(city, fallbackToLondon):
\* the parameter defaults to true.
getRandomReviewUrlCall(map, city, fallbackToLondon, pick) ==
    getRandomReviewUrl(map, city, fallbackToLondon # "false", pick)

\* POST /api/review-links/upload with a file: copy it over the CSV file and
\* reload.  When parse throws, the assignment of reloadReviewLinks is not
\* reached and the handler answers with status 500.
UploadReviewLinks(file) ==
    /\ file.state # "missing"
    /\ csvFile' = file
    /\ reviewLinksMap' = IF file.state = "malformed" THEN reviewLinksMap
                         ELSE loadReviewLinks(file)
    /\ UNCHANGED <<dryRun, pickups, optOuts, smsLog, jobRunSummary, sends, runs,
                   logFaults, preview, render, lookup, clock, smsCall>>

\* A call of getRandomReviewUrl, and of hasReviewLinks for the same city.
\* pool remembers the pool the call read.
LookupReviewUrl(city, fallbackToLondon, pick) ==
    /\ lookup' = [pc |-> "returned", city |-> city, fallbackToLondon |-> fallbackToLondon,
                  result |-> getRandomReviewUrlCall(reviewLinksMap, city, fallbackToLondon, pick),
                  hasLinks |-> hasReviewLinks(reviewLinksMap, city),
                  pool |-> reviewLinksMap]
    /\ UNCHANGED <<dryRun, reviewLinksMap, pickups, optOuts, smsLog, jobRunSummary, sends,
                   runs, logFaults, preview, render, csvFile, clock, smsCall>>

LookupCities == {"London", " LONDON", " glasgow ", "Lon"}

\* The files the uploads of this specification carry.
MaxUploadRecords == 2

UploadFiles ==
    {file \in CsvFiles :
        /\ file.state # "missing"
        /\ Len(file.records) <= MaxUploadRecords
        /\ \A k \in DOMAIN file.records : file.records[k].city \in {"London", " LONDON ", "Leeds"}}

InitReviewLinks ==
    /\ dryRun = FALSE
    /\ csvFile \in {file \in CsvFiles : file.state = "missing"} \cup
                   {file \in UploadFiles : file.state = "ok" /\ Len(file.records) = 1}
    /\ reviewLinksMap = loadReviewLinks(csvFile)
    /\ pickups = <<>>
    /\ optOuts = {}
    /\ smsLog = <<>>
    /\ jobRunSummary = <<>>
    /\ sends = <<>>
    /\ runs = [r \in RunIds |-> IdleRun]
    /\ logFaults = <<>>
    /\ preview = IdlePreview
    /\ render = IdleRender
    /\ lookup = NoLookup
    /\ clock = StartClock
    /\ smsCall = IdleSmsCall

NextReviewLinks ==
    \/ \E file \in UploadFiles : UploadReviewLinks(file)
    \/ \E city \in LookupCities, fallbackToLondon \in {"omitted", "true", "false"},
          pick \in 1..MaxLinks : LookupReviewUrl(city, fallbackToLondon, pick)

SpecReviewLinks == InitReviewLinks /\ [][NextReviewLinks]_vars

\* The URLs the pool holds under lowercase(trim(city)).
OwnUrls(pool, city) ==
    IF ToLowerCase(Trim(city)) \in DOMAIN pool THEN Range(pool[ToLowerCase(Trim(city))])
    ELSE {}

WellFormed(pool) ==
    \A city \in DOMAIN pool :
        /\ Len(pool[city]) > 0
        /\ \A n \in DOMAIN pool[city] : IsUrl(pool[city][n])

\* C33: the pool is replaced as a whole and stays well formed: at every
\* moment every city of the pool maps to a non-empty list of URLs; an
\* upload that loads puts the complete load of the new file in its place,
\* an upload that fails leaves the pool it found; a lookup reads a pool
\* that is the complete load of one file.
C33_PoolReplacedAtomically ==
    /\ [](/\ WellFormed(reviewLinksMap)
          /\ lookup.pc = "returned" =>
                \E file \in UploadFiles \cup {[state |-> "missing", records |-> <<>>]} :
                    file.state # "malformed" /\ loadReviewLinks(file) = lookup.pool)
    /\ [][csvFile' # csvFile =>
             IF csvFile'.state = "malformed" THEN reviewLinksMap' = reviewLinksMap
             ELSE reviewLinksMap' = loadReviewLinks(csvFile')]_vars

C33_Witness ==
    /\ csvFile.state = "malformed"
    /\ DOMAIN reviewLinksMap = {"london"}
    /\ Len(reviewLinksMap["london"]) = 2
    /\ lookup.pc = "returned"
    /\ lookup.pool = reviewLinksMap
    /\ lookup.result # NULL

(***************************************************************************)
(* The hourly windows as the clock moves: bookings picked up around two    *)
(* hour boundaries, dry-run hourly runs triggered and queried at any of    *)
(* the instants the clock passes through.                                  *)
(***************************************************************************)

\* The instants at which the model looks at the clock, around 01:00 and 02:00.
ClockTicks == {2, 59, 60, 62, 119, 120}

\* Time passes.
Tick ==
    /\ \E t \in ClockTicks : t > clock /\ clock' = t
    /\ UNCHANGED <<dryRun, reviewLinksMap, pickups, optOuts, smsLog, jobRunSummary, sends,
                 runs, logFaults, preview, render, csvFile, lookup, smsCall>>

WindowPickups == {"yesterday 23:10", "today 00:00", "today 00:59", "today 01:00", "today 01:30"}

WindowRows ==
    { [Row(800 + n, "+447911123456", "London") EXCEPT !.pickup = t] :
          n \in 1..MaxFetch, t \in WindowPickups }

InitWindows ==
    /\ dryRun = TRUE
    /\ reviewLinksMap = ScenarioPool
    /\ pickups \in SeqsUpTo(WindowRows, MaxFetch)
    /\ \A j, k \in DOMAIN pickups : j < k => pickups[j].booking_id < pickups[k].booking_id
    /\ optOuts = {}
    /\ smsLog = <<>>
    /\ jobRunSummary = <<>>
    /\ sends = <<>>
    /\ runs = [r \in RunIds |-> IdleRun]
    /\ InitQuiet

NextWindows ==
    \/ Tick
    \/ \E r \in RunIds : TriggerHourlyJob(r, TRUE)
    \/ \E r \in RunIds : HourlyFetched(r)

SpecWindows == InitWindows /\ [][NextWindows]_vars

\* Run r has made its query.
HasQueried(r) == runs[r].job = "hourly" /\ runs[r].pc \notin {"idle", "fetching"}

\* The booking ids run r fetched.
FetchedIds(r) == { runs[r].bookings[k].booking_id : k \in DOMAIN runs[r].bookings }

\* C34: the window of an hourly run started during clock hour H is [H-1h, H):
\* the run fetches exactly the eligible bookings picked up in that interval, so
\* runs started in different clock hours fetch no booking in common.
C34_WindowOfStartHour ==
    /\ \A r \in RunIds :
          HasQueried(r) =>
              FetchedIds(r) = { pickups[k].booking_id : k \in
                                  { j \in DOMAIN pickups :
                                      InPreviousHour(runs[r].startedAt,
                                                     MinuteOf(pickups[j].pickup)) } }
    /\ \A r, q \in RunIds :
          /\ HasQueried(r) /\ HasQueried(q)
          /\ HourOf(runs[r].startedAt) # HourOf(runs[q].startedAt)
          => FetchedIds(r) \cap FetchedIds(q) = {}

\* Run r got the rows of its query.
HasFetched(r) ==
    /\ HasQueried(r)
    /\ jobRunSummary[runs[r].jobRunId].error # "query failed"

JudgedAs(r, S) == {k \in DOMAIN runs[r].verdicts : runs[r].verdicts[k] \in S}

SkipReasons == {"invalid_phone", "non_uk", "opted_out"}

\* C36: overlapping hourly runs keep their records apart.  A step changes a
\* summary row only when the run that created the row moves, and then no
\* other row; the send log only grows, by entries of the run that moves; and
\* the summary of a run that returned holds the counts of that run's own
\* candidates: skipped as many as the run judged to skip, sent and failed
\* together as many as it judged eligible.
C36_RunsKeepRecordsApart ==
    /\ [][/\ Len(jobRunSummary') >= Len(jobRunSummary)
          /\ \A id \in DOMAIN jobRunSummary :
                jobRunSummary'[id] # jobRunSummary[id] =>
                    \E r \in RunIds :
                        /\ runs[r].jobRunId = id /\ runs[r].job = "hourly"
                        /\ runs'[r] # runs[r]
                        /\ \A q \in RunIds \ {r} : runs'[q] = runs[q]
          /\ Len(smsLog') >= Len(smsLog)
          /\ SubSeq(smsLog', 1, Len(smsLog)) = smsLog
          /\ \A n \in DOMAIN smsLog' :
                n > Len(smsLog) =>
                    /\ runs'[smsLog'[n].run] # runs[smsLog'[n].run]
                    /\ \A q \in RunIds \ {smsLog'[n].run} : runs'[q] = runs[q]]_vars
    /\ [](\A r \in RunIds :
             (runs[r].job = "hourly" /\ runs[r].pc = "returned" /\ runs[r].bookings # <<>>) =>
                 LET row == jobRunSummary[runs[r].jobRunId] IN
                 /\ row.skipped_count = Cardinality(JudgedAs(r, SkipReasons))
                 /\ row.sent_count + row.failed_count = Cardinality(JudgedAs(r, {"eligible"}))
                 /\ row.sent_count =
                        Cardinality({k \in JudgedAs(r, {"eligible"}) : LogsOf(r, k, {"sent"}) # {}})
                 /\ \A n \in DOMAIN smsLog :
                        smsLog[n].run = r => smsLog[n].idx \in DOMAIN runs[r].bookings)

\* Two live hourly runs overlapped, each waiting for TextMagic while the
\* other had a request in flight, and both returned with different counts.
C36_Witness ==
    /\ \A r \in RunIds : runs[r].job = "hourly" /\ runs[r].pc = "returned"
                         /\ ~runs[r].isDryRun /\ runs[r].bookings # <<>>
    /\ ~dryRun
    /\ \E m, n \in DOMAIN sends : m < n /\ sends[m].run = 2 /\ sends[n].run = 1
    /\ \E m, n \in DOMAIN sends : m < n /\ sends[m].run = 1 /\ sends[n].run = 2
    /\ jobRunSummary[1].sent_count # jobRunSummary[2].sent_count

(***************************************************************************)
(* Termination of the hourly job: runs on a storage that may refuse        *)
(* inserts, with every data-source query and every TextMagic request       *)
(* eventually returning or failing and every delay timer eventually        *)
(* firing.                                                                 *)
(***************************************************************************)

NextTermination ==
    \/ \E r \in RunIds, isDryRun \in BOOLEAN : TriggerHourlyJob(r, isDryRun)
    \/ \E r \in RunIds : HourlyFetched(r)
    \/ \E r \in RunIds : HourlyFetchFailed(r)
    \/ \E r \in RunIds : SendSucceeded(r)
    \/ \E r \in RunIds : DelayElapsed(r)
    \/ \E r \in RunIds : SendFailed(r)

\* A pending await of some run settles: the query returns or fails, the
\* TextMagic request succeeds or fails, the delay timer fires.
AwaitSettles ==
    \E r \in RunIds :
        \/ HourlyFetched(r) \/ HourlyFetchFailed(r)
        \/ SendSucceeded(r) \/ SendFailed(r)
        \/ DelayElapsed(r)

\* Some run waits for its query, its TextMagic request or its delay timer;
\* AwaitSettles is enabled in exactly these states.
Pending == \E r \in RunIds : runs[r].pc \in {"fetching", "sending", "delaying"}

\* Weak fairness of AwaitSettles, WF_vars(AwaitSettles), with the enabling
\* condition written out: no await stays pending for ever.
AwaitsSettleFairly == []<>(~Pending) \/ []<><<AwaitSettles>>_vars

SpecTermination == InitStorage /\ [][NextTermination]_vars /\ AwaitsSettleFairly

\* Run r is between its start and its return or throw.
InProgress(r) == runs[r].pc \in {"fetching", "sending", "delaying"}

\* Run r has returned or thrown.
Ended(r) == runs[r].pc \in {"returned", "thrown"}

EntriesOf(r, S) == {n \in DOMAIN smsLog : smsLog[n].run = r /\ smsLog[n].status \in S}

SkippedStatuses == {"skipped_invalid_phone", "skipped_non_uk", "skipped_opted_out"}

\* C38: whenever an hourly run has ended (returned or thrown), the
\* sent_count, failed_count and skipped_count of its summary equal the
\* numbers of send-log entries the run appended with status sent, failed and
\* skipped_*.
C38_SummaryAgreesWithLog ==
    \A r \in RunIds :
        (runs[r].job = "hourly" /\ Ended(r)) =>
            LET row == jobRunSummary[runs[r].jobRunId] IN
            /\ row.sent_count = Cardinality(EntriesOf(r, {"sent"}))
            /\ row.failed_count = Cardinality(EntriesOf(r, {"failed"}))
            /\ row.skipped_count = Cardinality(EntriesOf(r, SkippedStatuses))

\* The phones the ledger requests are tried with: those of the ledger model
\* and the one on which the phone library raises.
RawPhones == LedgerPhones \cup RaisesParseError

\* The keys of a ledger.
Keys(ledger) == {row.phone_e164 : row \in ledger}

\* C39: every key of the opt-out ledger is a normalized phone.  Each of the
\* three paths normalizes the phone it is given and touches no other key than
\* the normalized one; when the phone cannot be normalized the ledger stays
\* as it is and the inbound webhook answers with action 'none', the two API
\* routes with status 400.
C39_LedgerKeysNormalized ==
    /\ \A key \in Keys(optOuts) : normalizePhone(key) = key
    /\ \A phone \in RawPhones :
          LET e164 == normalizePhone(phone)
              posted == PostOptOut(optOuts, phone, "", "")
              deleted == DeleteOptOut(optOuts, phone)
          IN  IF e164 = NULL
              THEN /\ posted.ledger = optOuts /\ posted.status = 400
                   /\ deleted.ledger = optOuts /\ deleted.status = 400
                   /\ \A text \in LedgerTexts :
                         /\ handleInboundSMS(optOuts, text, phone) = optOuts
                         /\ handleInboundSMSAction(optOuts, text, phone) = "none"
              ELSE /\ Keys(posted.ledger) = Keys(optOuts) \cup {e164}
                   /\ Keys(deleted.ledger) = Keys(optOuts) \ {e164}
                   /\ \A text \in LedgerTexts :
                         Keys(handleInboundSMS(optOuts, text, phone)) \in
                             {Keys(optOuts), Keys(optOuts) \cup {e164}, Keys(optOuts) \ {e164}}

\* The ledger holds the normalized form of a number that arrived in national
\* format, recorded by a stop message, next to the record it started with.
C39_Witness ==
    /\ \E row \in optOuts : row.phone_e164 = "+447911000000" /\ row.source = "inbound_sms_stop"
    /\ "07911000000" \in RawPhones /\ normalizePhone("07911000000") = "+447911000000"
    /\ \E phone \in RawPhones : normalizePhone(phone) = NULL
    /\ Cardinality(optOuts) = 2

(***************************************************************************)
(* The sender (textmagic.ts): sendSMS and RateLimitedSMS.send, one call    *)
(* with every outcome of the TextMagic request.  JavaScript values are     *)
(* written as strings (the number 500 as "500"); a thrown object is the    *)
(* record of its code and message.                                         *)
(***************************************************************************)

\* JavaScript's truthiness of a value
Truthy(v) == v \notin {UNDEFINED, NULL, "", "0"}

\* a || b
OrElse(a, b) == IF Truthy(a) THEN a ELSE b

\* parts.join('; ')
RECURSIVE JoinParts(_)
JoinParts(parts) ==
    IF parts = <<>> THEN ""
    ELSE IF Len(parts) = 1 THEN parts[1]
    ELSE parts[1] \o "; " \o JoinParts(Tail(parts))

\* An object member that is absent, and one holding "field: messages" entries.
Absent == [present |-> FALSE, parts |-> <<>>]
Entries(parts) == [present |-> TRUE, parts |-> parts]

\* The bodies a TextMagic response carries: not JSON, the JSON value null,
\* or a JSON object.
ResponseBodies ==
    {[json |-> j, message |-> UNDEFINED, errors |-> Absent, validation_errors |-> Absent,
      id |-> UNDEFINED, href |-> UNDEFINED] : j \in {"invalid", "null"}}
    \cup
    [json : {"object"},
     message : {UNDEFINED, "", "Invalid phone"},
     errors : {Absent, Entries(<<>>), Entries(<<"phones: bad", "text: long">>)},
     validation_errors : {Absent, Entries(<<"phones: bad">>)},
     id : {UNDEFINED, "4711"},
     href : {UNDEFINED, "/api/v2/messages/4711"}]

\* response.status and response.statusText
StatusTexts ==
    [status \in {"200", "400", "500"} |->
        CASE status = "200" -> "OK"
          [] status = "400" -> "Bad Request"
          [] status = "500" -> "Internal Server Error"]

\* What fetch rejects with: an Error with or without code and message.
FetchErrors == [code : {UNDEFINED, "ECONNRESET"}, message : {"", "fetch failed"}]

\* The outcomes of await fetch(...): a response, or a rejection.
FetchOutcomes ==
    {[kind |-> "response", status |-> status, body |-> body,
      error |-> [code |-> UNDEFINED, message |-> UNDEFINED]] :
          status \in DOMAIN StatusTexts, body \in ResponseBodies}
    \cup
    {[kind |-> "rejected", status |-> UNDEFINED, body |-> CHOOSE b \in ResponseBodies : b.json = "invalid",
      error |-> error] : error \in FetchErrors}

\* A statement of sendSMS throws error, or sendSMS returns messageId.
Throw(error) == [threw |-> TRUE, error |-> error, messageId |-> UNDEFINED]
Return(messageId) ==
    [threw |-> FALSE, error |-> [code |-> UNDEFINED, message |-> UNDEFINED],
     messageId |-> messageId]

\* The TypeError of reading a member of null, the SyntaxError of response.json()
TypeErrorOfNull == [code |-> UNDEFINED, message |-> "Cannot read properties of null"]
SyntaxErrorOfJson == [code |-> UNDEFINED, message |-> "Unexpected token < in JSON"]

\* The try block of sendSMS on a live send.
sendSMSTry(outcome) ==
    IF outcome.kind = "rejected" THEN Throw(outcome.error)
    ELSE IF outcome.status # "200"
    THEN IF outcome.body.json = "null" THEN Throw(TypeErrorOfNull)
         ELSE LET errorData == outcome.body
                  plain == OrElse(errorData.message,
                                  "HTTP " \o outcome.status \o ": " \o StatusTexts[outcome.status])
                  withErrors ==
                      IF errorData.errors.present /\ errorData.errors.parts # <<>>
                      THEN plain \o " (" \o JoinParts(errorData.errors.parts) \o ")"
                      ELSE plain
                  errorMessage ==
                      IF errorData.validation_errors.present
                      THEN withErrors \o " (" \o JoinParts(errorData.validation_errors.parts) \o ")"
                      ELSE withErrors
              IN  Throw([code |-> outcome.status, message |-> errorMessage])
    ELSE IF outcome.body.json = "invalid" THEN Throw(SyntaxErrorOfJson)
    ELSE IF outcome.body.json = "null" THEN Throw(TypeErrorOfNull)
    ELSE Return(OrElse(outcome.body.id, OrElse(outcome.body.href, "unknown")))

\* The catch block of sendSMS rethrowing whatever it caught.
sendSMSCatchRethrows(error) == error

\* The catch block of sendSMS: what it throws for what it caught.
sendSMSCatch(error) ==
    IF Truthy(error.code) /\ Truthy(error.message) THEN error
    ELSE [code |-> OrElse(error.code, "500"), message |-> OrElse(error.message, "Unknown error")]

\* sendSMS(to, message) on a live send
sendSMS(outcome) ==
    LET tried == sendSMSTry(outcome)
    IN  IF tried.threw THEN Throw(sendSMSCatch(tried.error)) ELSE tried

\* rateLimitedSMS.send(to, message) is called: sendSMS returns at once in
\* dry-run mode, and issues the TextMagic request otherwise.
SmsSendCalled(to) ==
    /\ smsCall.pc = "idle"
    /\ smsCall' = IF dryRun
                  THEN [smsCall EXCEPT !.pc = "returned", !.to = to, !.messageId = "dry-run-ts"]
                  ELSE [smsCall EXCEPT !.pc = "requesting", !.to = to]
    /\ UNCHANGED <<dryRun, reviewLinksMap, pickups, optOuts, smsLog, jobRunSummary, sends,
                 runs, logFaults, preview, render, csvFile, lookup, clock>>

\* The TextMagic request settled: sendSMS returns or throws; after a return
\* RateLimitedSMS.send starts its delay, a throw leaves it at once.
SmsRequestSettled(outcome) ==
    /\ smsCall.pc = "requesting"
    /\ LET result == sendSMS(outcome)
       IN  smsCall' =
               IF result.threw
               THEN [smsCall EXCEPT !.pc = "thrown", !.outcome = outcome,
                                    !.error = result.error]
               ELSE IF ~dryRun /\ smsDelayMs > 0
               THEN [smsCall EXCEPT !.pc = "delaying", !.outcome = outcome,
                                    !.messageId = result.messageId, !.delayed = TRUE]
               ELSE [smsCall EXCEPT !.pc = "returned", !.outcome = outcome,
                                    !.messageId = result.messageId]
    /\ UNCHANGED <<dryRun, reviewLinksMap, pickups, optOuts, smsLog, jobRunSummary, sends,
                 runs, logFaults, preview, render, csvFile, lookup, clock>>

\* The delay of RateLimitedSMS.send elapsed: it returns the result.
SmsDelayElapsed ==
    /\ smsCall.pc = "delaying"
    /\ smsCall' = [smsCall EXCEPT !.pc = "returned"]
    /\ UNCHANGED <<dryRun, reviewLinksMap, pickups, optOuts, smsLog, jobRunSummary, sends,
                 runs, logFaults, preview, render, csvFile, lookup, clock>>

InitSender ==
    /\ dryRun \in BOOLEAN
    /\ reviewLinksMap = [c \in {} |-> <<>>]
    /\ pickups = <<>>
    /\ optOuts = {}
    /\ smsLog = <<>>
    /\ jobRunSummary = <<>>
    /\ sends = <<>>
    /\ runs = [r \in RunIds |-> IdleRun]
    /\ InitQuiet

NextSender ==
    \/ \E to \in {"+447911123456"} : SmsSendCalled(to)
    \/ \E outcome \in FetchOutcomes : SmsRequestSettled(outcome)
    \/ SmsDelayElapsed

SpecSender == InitSender /\ [][NextSender]_vars

\* C40: every failure of a live send reaches the caller in one shape: the
\* value sendSMS throws has a non-empty code and a non-empty message, whether
\* the provider answered with an error status, the request was rejected or
\* the response could not be read; and a call that threw is not followed by
\* the rate-limit delay: the delay starts only after sendSMS returned.
C40_FailuresInOneShape ==
    /\ [](smsCall.pc = "thrown" =>
             /\ Truthy(smsCall.error.code)
             /\ Truthy(smsCall.error.message)
             /\ ~smsCall.delayed)
    /\ [][/\ smsCall.pc = "thrown" => smsCall' = smsCall
          /\ smsCall'.pc = "delaying" =>
                 /\ smsCall.pc = "requesting"
                 /\ ~sendSMS(smsCall'.outcome).threw]_vars

\* The request was rejected with an error that carries neither code nor
\* message, and the caller got code 500 and 'Unknown error' without delay.
C40_Witness ==
    /\ smsCall.pc = "thrown"
    /\ smsCall.outcome.kind = "rejected"
    /\ ~Truthy(smsCall.outcome.error.code) /\ ~Truthy(smsCall.outcome.error.message)
    /\ smsCall.error = [code |-> "500", message |-> "Unknown error"]
    /\ ~smsCall.delayed

====
